---- MODULE Spec2Model ----
(***************************************************************************)
(* A model of the XueqiuCrawlers data-acquisition tool: the base crawler's *)
(* retry loop, the K-line, financial-summary and financial-statements      *)
(* worklists, the storage upsert paths, the authentication manager's       *)
(* cookie cache and the DatabaseManager connection pool.                   *)
(*                                                                         *)
(* Each component has its own variables and its own specification; a       *)
(* specification leaves the variables of the other components unchanged.   *)
(***************************************************************************)
EXTENDS Integers, Sequences, FiniteSets, TLC

\* ------------------------------------------------------------------------
\* Bounds of the model
\* ------------------------------------------------------------------------
MaxRetriesArg == 3
\* the longest stock_info / stock_list snapshot, in rows
MaxStocks == 3
\* the largest max_stocks argument of a K-line run
MaxStocksArg == 1
\* the saves of Security records in a run of the upsert model
MaxSaves == 3
\* the ticks of the clock in a run of the authentication model
MaxTicks == 2
\* the menu actions started in a run of run.py
MaxMenuActions == 2
\* the lines of cookie_input.txt
MaxLines == 2
\* the switch_storage calls made on a service
MaxSwitches == 2
\* the threads that use the DatabaseManager, and its pool_size
NumThreads == 5
PoolSize == 2
\* the range self._created_connections is followed over: replacements and
\* lost updates move it without limit
MaxCreated == 6
MaxLost == 2

\* ------------------------------------------------------------------------
\* Program constants
\* ------------------------------------------------------------------------
\* Config.CRAWLER_CONFIG['max_retries']
ConfigMaxRetries == 3
\* Config.CRAWLER_CONFIG['request_delay'], in tenths of a second
ConfigRequestDelay == 3

\* Python's None, where an integer is expected
None == 0 - 1

VARIABLES
    \* ---- BaseCrawler.make_request -------------------------------------
    rq_pc,          \* "idle" | "loop" | "returned" | "raised"
    max_retries,    \* the effective max_retries of the running call
    attempt,        \* the loop variable of `for attempt in range(max_retries)`
    rq_trace,       \* the GETs and sleeps of the call, in order
    rq_error,       \* the retry count carried by the raised failure, or None
    \* ---- storage shared by the crawlers -------------------------------
    storage_type,   \* DataRepository.storage_type: "csv" | "database"
    stock_info,     \* the symbol column of the latest stock_info/<date>.csv
    stock_list,     \* the symbol column of the latest stock_list/<date>.csv
    stocks_table,   \* the symbols of the relational `stocks` table
    \* ---- KlineCrawler --------------------------------------------------
    kline_log,      \* the symbols logged in kline/kline_log.csv or `kline_log`
    k_pc,           \* "idle" | "running" | "done"
    k_op,           \* "crawl" (crawl_kline_data) | "resume" (resume_crawl)
    k_all,          \* what _get_unprocessed_stocks returned to the run
    k_work,         \* the list the run's loop iterates over
    k_i,            \* the loop position in k_work, from 1
    k_arg,          \* the run's max_stocks argument, or None
    k_log0,         \* kline_log as it was when the run started
    k_fetched,      \* per symbol, the _fetch_kline_data_with_retry calls of the run
    processed_count,
    failed_symbols,
    \* ---- FinancialStatementsCrawler -----------------------------------
    stmt_log,       \* the (symbol, statement_type) pairs of the statement log
    stmt_pc,        \* "idle" | "queried"
    stmt_result,    \* what the last get_unprocessed_stocks returned
    stmt_log0,      \* stmt_log as that query read it
    stmt_i,         \* the loop position of crawl_financial_statements, from 1
    stmt_fetched,   \* the (symbol, statement_type) pairs the run asked the API for
    stmt_success,   \* success_count of the run
    stmt_complete,  \* the securities whose three statements the run fetched and saved
    \* ---- FinancialCrawler ----------------------------------------------
    fin_log,        \* the (compcode, reportdate) pairs of the finmain log
    f_pc,           \* "idle" | "running" | "done"
    f_work,         \* the worklist of the crawl_financial_data run
    f_i,            \* the loop position in f_work, from 1
    f_log0,         \* fin_log as it was when the run started
    f_fetched,      \* per symbol, the get_financial_data calls of the run
    f_success,      \* success_count of the run
    f_error,        \* error_count of the run
    \* ---- DataRepository.save_stock_basic_info --------------------------
    csv_rows,       \* the rows of stock_info/stock_info.csv, cells as text
    db_rows,        \* the rows of the relational `stocks` table
    up_saved,       \* the records of the saves that completed, in order
    up_last,        \* the last save_* / log_* call of the repository
    klog_rows,      \* the symbols of the repository's kline_log table
    \* ---- XueqiuAuth -----------------------------------------------------
    cookie_file,    \* config/xueqiu_cookies.json
    now,            \* time.time(), in seconds
    session,        \* XueqiuAuth.session and the cookies of its jar
    a_op,           \* the last operation of the manager
    a_result,       \* the cookie map that operation returned
    a_requests,     \* the network requests that operation issued
    a_path,         \* how get_cookies came to its result
    persisted,      \* the last write of the cookie file, as _save_cookies saw it
    \* ---- the authentication status checks and run.py -------------------
    st_cookies,     \* the cookie map the checks are given
    st_check,       \* the check that ran last, or "none"
    st_report,      \* the status it printed, and the user id with it
    cli_pc,         \* main(): "start" | "menu" | "returned"
    cli_auth,       \* what test_authentication() returned: "none" | "true" | "false"
    cli_http,       \* the homepage answered the validation request with 200
    cli_started,    \* the menu actions main() has started, in order
    \* ---- get_cookie.py: the cookie import ---------------------------------
    input_file,     \* cookie_input.txt: whether it exists, and its lines
    imp_ret,        \* what the last process_cookie_file() returned
    imp_path,       \* the return statement it left by
    imp_input0,     \* cookie_input.txt as that call found it
    imp_cookies,    \* the cookies that call parsed
    \* ---- FinancialCrawler: one headline record ---------------------------
    h_pc,           \* "idle" | "fetched" | "saved"
    h_payload,      \* the numeric members of the item the API answered
    h_record,       \* the records get_financial_data returned
    h_csv,          \* the rows written to the security's financial CSV file
    h_db,           \* the rows written to the finmain table
    \* ---- calculate_financial_ratios --------------------------------------
    r_pc,           \* "idle" | "done"
    r_balance,      \* the balance_data argument of the last call
    r_income,       \* its income_data argument
    r_cash,         \* its cash_flow_data argument ({} when not given)
    r_out,          \* what the call returned, and whether it logged an error
    \* ---- StockCrawler._parse_stock_data ----------------------------------
    p_pc,           \* "idle" | "parsed"
    p_row,          \* the quote-list row handed to _parse_stock_data
    p_out,          \* the dict it returned
    \* ---- KlineCrawler._fetch_kline_data_with_retry -----------------------
    kf_pc,          \* "idle" | "loop" | "returned" | "raised"
    kf_max,         \* self.max_retries of the crawler
    kf_trace,       \* the responses of the attempts made, in order
    kf_sleeps,      \* the one-second waits made
    kf_result,      \* what the call returned: the attempt whose bars they are
    \* ---- FinancialStatementsCrawler._try_api_endpoints -------------------
    ep_pc,          \* "idle" | "loop" | "returned"
    ep_max,         \* the max_retries argument
    ep_url,         \* the position in urls_to_try of the endpoint in use
    ep_attempt,     \* the loop variable of `for attempt in range(max_retries)`
    ep_trace,       \* the requests and waits of the call, in order
    ep_result,      \* what the call returned
    \* ---- AutoCookieGenerator.generate_fresh_cookies -----------------------
    ac_pc,          \* "idle" | "strategies" | "validate" | "validate_base" | "returned"
    ac_trace,       \* the strategies called, each with what it produced
    ac_cache,       \* config/cached_acw_sc_v2.txt: "none" | "fresh" | "stale"
    ac_valid,       \* the _validate_cookies calls, each with its answer
    ac_result,      \* what the call returned
    \* ---- CrawlerService --------------------------------------------------
    repos,          \* the DataRepository objects made so far: their modes, by id
    svc,            \* the attributes of the service object
    svc_call,       \* the last call on the service and how it ended
    svc_before,     \* svc as it was when that call started
    svc_trace,      \* the calls made on the service so far, oldest first
    \* ---- DatabaseManager ------------------------------------------------
    pool,           \* len(self._pool): the idle connections
    created,        \* self._created_connections
    lock,           \* self._lock: "free" | "held"
    at,             \* per position in get_connection, the threads there
    reading,        \* per counter value, the threads that read it for `+= 1`
    closed_all      \* close_all_connections has run

retryVars == <<rq_pc, max_retries, attempt, rq_trace, rq_error>>
snapVars == <<storage_type, stock_info, stock_list, stocks_table>>
klineVars == <<kline_log, k_pc, k_op, k_all, k_work, k_i, k_arg, k_log0,
               k_fetched, processed_count, failed_symbols>>
stmtVars == <<stmt_log, stmt_pc, stmt_result, stmt_log0, stmt_i, stmt_fetched,
              stmt_success, stmt_complete>>
finVars == <<fin_log, f_pc, f_work, f_i, f_log0, f_fetched, f_success, f_error>>

upVars == <<csv_rows, db_rows, up_saved, up_last, klog_rows>>
authVars == <<cookie_file, now, session, a_op, a_result, a_requests, a_path,
              persisted>>
statusVars == <<st_cookies, st_check, st_report>>
cliVars == <<cli_pc, cli_auth, cli_http, cli_started>>
impVars == <<input_file, imp_ret, imp_path, imp_input0, imp_cookies>>
headVars == <<h_pc, h_payload, h_record, h_csv, h_db>>
ratioVars == <<r_pc, r_balance, r_income, r_cash, r_out>>
parseVars == <<p_pc, p_row, p_out>>
kfetchVars == <<kf_pc, kf_max, kf_trace, kf_sleeps, kf_result>>
epVars == <<ep_pc, ep_max, ep_url, ep_attempt, ep_trace, ep_result>>
acVars == <<ac_pc, ac_trace, ac_cache, ac_valid, ac_result>>
svcVars == <<repos, svc, svc_call, svc_before, svc_trace>>
poolVars == <<pool, created, lock, at, reading, closed_all>>

vars == <<retryVars, snapVars, klineVars, stmtVars, finVars, upVars, authVars,
          poolVars, statusVars, cliVars, svcVars, impVars, headVars, ratioVars,
    parseVars,
    kfetchVars,
    epVars,
    acVars>>

\* what an action of one component leaves alone
notRetry == <<snapVars, klineVars, stmtVars, finVars, upVars, authVars, poolVars,
              statusVars, cliVars, svcVars, impVars,
              headVars, ratioVars,
    parseVars,
    kfetchVars,
    epVars,
    acVars>>
notKline == <<retryVars, snapVars, stmtVars, finVars, upVars, authVars, poolVars,
              statusVars, cliVars, svcVars, impVars,
              headVars, ratioVars,
    parseVars,
    kfetchVars,
    epVars,
    acVars>>
notStmt == <<retryVars, snapVars, klineVars, finVars, upVars, authVars, poolVars,
             statusVars, cliVars, svcVars, impVars,
             headVars, ratioVars,
    parseVars,
    kfetchVars,
    epVars,
    acVars>>
notFin == <<retryVars, snapVars, klineVars, stmtVars, upVars, authVars, poolVars,
            statusVars, cliVars, svcVars, impVars,
            headVars, ratioVars,
    parseVars,
    kfetchVars,
    epVars,
    acVars>>
notUp == <<retryVars, snapVars, klineVars, stmtVars, finVars, authVars, poolVars,
           statusVars, cliVars, svcVars, impVars,
           headVars, ratioVars,
    parseVars,
    kfetchVars,
    epVars,
    acVars>>
notAuth == <<retryVars, snapVars, klineVars, stmtVars, finVars, upVars, poolVars,
             statusVars, cliVars, svcVars, impVars,
             headVars, ratioVars,
    parseVars,
    kfetchVars,
    epVars,
    acVars>>
notPool == <<retryVars, snapVars, klineVars, stmtVars, finVars, upVars, authVars,
             statusVars, cliVars, svcVars, impVars,
             headVars, ratioVars,
    parseVars,
    kfetchVars,
    epVars,
    acVars>>

notStatus == <<retryVars, snapVars, klineVars, stmtVars, finVars, upVars, authVars,
               poolVars, cliVars, svcVars, impVars, headVars, ratioVars,
    parseVars,
    kfetchVars,
    epVars,
    acVars>>
notCli == <<retryVars, snapVars, klineVars, stmtVars, finVars, upVars, authVars,
            poolVars, svcVars, impVars, headVars, ratioVars,
    parseVars,
    kfetchVars,
    epVars,
    acVars>>
notSvc == <<retryVars, snapVars, klineVars, stmtVars, finVars, upVars, authVars,
            poolVars, statusVars, cliVars, impVars, headVars, ratioVars,
    parseVars,
    kfetchVars,
    epVars,
    acVars>>
\* the import writes the cookie file of the authentication manager
notImp == <<retryVars, snapVars, klineVars, stmtVars, finVars, upVars,
            poolVars, statusVars, cliVars, svcVars, headVars, ratioVars,
    parseVars,
    kfetchVars,
    epVars,
    acVars>>
notHead == <<retryVars, snapVars, klineVars, stmtVars, finVars, upVars, authVars,
             poolVars, statusVars, cliVars, svcVars, impVars, ratioVars,
    parseVars,
    kfetchVars,
    epVars,
    acVars>>
notRatio == <<retryVars, snapVars, klineVars, stmtVars, finVars, upVars, authVars,
              poolVars, statusVars, cliVars, svcVars, impVars, headVars,
    parseVars,
    kfetchVars,
    epVars,
    acVars>>
notParse == <<retryVars, snapVars, klineVars, stmtVars, finVars, 
    upVars, authVars, poolVars, statusVars, cliVars, svcVars, impVars, 
    headVars, ratioVars,
    kfetchVars,
    epVars,
    acVars>>
notKfetch == <<retryVars, snapVars, klineVars, stmtVars, finVars, 
    upVars, authVars, poolVars, statusVars, cliVars, svcVars, impVars, 
    headVars, ratioVars, parseVars,
    epVars,
    acVars>>
notEp == <<retryVars, snapVars, klineVars, stmtVars, finVars, 
    upVars, authVars, poolVars, statusVars, cliVars, svcVars, impVars, 
    headVars, ratioVars, parseVars, kfetchVars,
    acVars>>
notAc == <<retryVars, snapVars, klineVars, stmtVars, finVars, 
    upVars, authVars, poolVars, statusVars, cliVars, svcVars, impVars, 
    headVars, ratioVars, parseVars, kfetchVars, epVars>>

\* ========================================================================
\* Sequences
\* ========================================================================
Range(q) == {q[i] : i \in 1..Len(q)}
NoDup(q) == \A i, j \in 1..Len(q) : q[i] = q[j] => i = j
\* Python's q[:n] for n >= 0
Take(q, n) == SubSeq(q, 1, IF n < Len(q) THEN n ELSE Len(q))
SeqsUpTo(S, n) == UNION {[1..m -> S] : m \in 0..n}
\* a set of strings as the list an ORDER BY ... ASC query returns; the
\* symbols of the model are single letters, ordered as below
SymOrder == <<"A", "B", "C">>
Sorted(S) == SelectSeq(SymOrder, LAMBDA x : x \in S)

\* ========================================================================
\* BaseCrawler.make_request
\* ========================================================================

\* What one session.get can come to: HTTP 200, another status, or a
\* requests.RequestException (timeout, connection error)
GetOutcomes == {"ok", "http_500", "http_404", "request_exception"}

GetEvent(o) == [kind |-> "get", what |-> o, secs |-> 0]
SleepEvent(d) == [kind |-> "sleep", what |-> "delay", secs |-> d]

\* the arguments make_request is called with: None takes the configured value
RetryArgs == {None} \cup (0..MaxRetriesArg)

EffectiveMaxRetries(arg) == IF arg = None THEN ConfigMaxRetries ELSE arg

RetryInit ==
    /\ rq_pc = "idle"
    /\ max_retries = 0
    /\ attempt = 0
    /\ rq_trace = <<>>
    /\ rq_error = None

\* make_request(url, max_retries=arg): lines 55-58, entering the loop
MakeRequestCall(arg) ==
    /\ rq_pc = "idle"
    /\ max_retries' = EffectiveMaxRetries(arg)
    /\ attempt' = 0
    /\ rq_trace' = <<>>
    /\ rq_error' = None
    /\ rq_pc' = "loop"
    /\ UNCHANGED notRetry

\* `for attempt in range(max_retries)` (line 58)
LoopContinuesMutOffByOne(att, mr) == att <= mr
LoopContinues(att, mr) == att < mr

\* the sleep that ends a failed iteration (lines 74-76)
SleepAfterFailure(att, mr) ==
    IF att < mr - 1 THEN <<SleepEvent(ConfigRequestDelay)>> ELSE <<>>

\* one iteration of the loop (lines 58-76)
MakeRequestAttempt(o) ==
    /\ rq_pc = "loop"
    /\ LoopContinues(attempt, max_retries)
    /\ IF o = "ok"
         THEN /\ rq_trace' = Append(rq_trace, GetEvent(o))
              /\ rq_pc' = "returned"
              /\ attempt' = attempt
         ELSE /\ rq_trace' = Append(rq_trace, GetEvent(o))
                               \o SleepAfterFailure(attempt, max_retries)
              /\ attempt' = attempt + 1
              /\ rq_pc' = "loop"
    /\ UNCHANGED <<max_retries, rq_error>>
    /\ UNCHANGED notRetry

\* the loop is exhausted (line 78)
MakeRequestRaise ==
    /\ rq_pc = "loop"
    /\ ~LoopContinues(attempt, max_retries)
    /\ rq_pc' = "raised"
    /\ rq_error' = max_retries
    /\ UNCHANGED <<max_retries, attempt, rq_trace>>
    /\ UNCHANGED notRetry

\* the caller goes on to its next request
MakeRequestDone ==
    /\ rq_pc \in {"returned", "raised"}
    /\ rq_pc' = "idle"
    /\ UNCHANGED <<max_retries, attempt, rq_trace, rq_error>>
    /\ UNCHANGED notRetry

RetryNext ==
    \/ \E arg \in RetryArgs : MakeRequestCall(arg)
    \/ \E o \in GetOutcomes : MakeRequestAttempt(o)
    \/ MakeRequestRaise
    \/ MakeRequestDone

\* ========================================================================
\* Storage: the snapshots and logs the crawlers read and write
\* ========================================================================
Symbols == {"A", "B", "C"}
\* a row of a snapshot file may carry an empty symbol
RowSymbols == Symbols \cup {""}
StorageTypes == {"csv", "database"}

\* the K-line crawler's csv_storage attribute is set in CSV mode only
\* (KlineCrawler.__init__)
HasCsvStorage == storage_type = "csv"

\* [stock['symbol'] for stock in rows if stock.get('symbol')]
SymbolsOf(rows) == SelectSeq(rows, LAMBDA x : x # "")

\* StockRepository.get_unprocessed_kline_stocks: stocks LEFT JOIN kline_log
\* WHERE kline_log.symbol IS NULL ORDER BY symbol
UnprocessedKlineStocksDb == Sorted(stocks_table \ kline_log)

\* KlineCrawler._get_unprocessed_stocks.  In CSV mode the latest stock_info
\* snapshot, else the latest stock_list snapshot; the legacy stock_list.csv
\* table behind DataRepository.get_unprocessed_kline_stocks is absent in CSV
\* mode.  In database mode the anti-join against kline_log.
GetUnprocessedStocksKline ==
    IF HasCsvStorage
      THEN IF stock_info # <<>> THEN SymbolsOf(stock_info)
           ELSE IF stock_list # <<>> THEN SymbolsOf(stock_list)
           ELSE <<>>
      ELSE UnprocessedKlineStocksDb

\* KlineCrawler.get_processed_symbols: the symbols of the log file of the CSV
\* storage; without a CSV storage the path is ./kline_log.csv, a file the
\* program never writes, so the list is empty
GetProcessedSymbols == IF HasCsvStorage THEN kline_log ELSE {}

\* [symbol for symbol in all_symbols if symbol not in processed_symbols]
ResumeFilterMutNone(all, processed) == all
ResumeFilter(all, processed) == SelectSeq(all, LAMBDA x : x \notin processed)

\* `if max_stocks: work = work[:max_stocks]`; None and 0 are falsy
LimitTo(work, arg) == IF arg = None \/ arg = 0 THEN work ELSE Take(work, arg)

KlineArgs == {None} \cup (0..MaxStocksArg)

KlineInit ==
    /\ kline_log = {}
    /\ k_pc = "idle"
    /\ k_op = "crawl"
    /\ k_all = <<>>
    /\ k_work = <<>>
    /\ k_i = 1
    /\ k_arg = None
    /\ k_log0 = {}
    /\ k_fetched = [s \in Symbols |-> 0]
    /\ processed_count = 0
    /\ failed_symbols = <<>>

\* the start of a run, up to the loop: crawl_kline_data lines 110-125,
\* resume_crawl lines 233-253.  A run with nothing to do returns at once;
\* crawl_kline_data resets the counters before that test, resume_crawl after.
KlineStart(op, arg) ==
    /\ k_pc = "idle"
    /\ LET all == GetUnprocessedStocksKline
           work == IF op = "resume"
                     THEN LimitTo(ResumeFilter(all, GetProcessedSymbols), arg)
                     ELSE LimitTo(all, arg)
       IN /\ k_all' = all
          /\ k_work' = work
          /\ k_pc' = IF work = <<>> THEN "done" ELSE "running"
          /\ IF work = <<>> /\ op = "resume"
               THEN UNCHANGED <<processed_count, failed_symbols>>
               ELSE processed_count' = 0 /\ failed_symbols' = <<>>
    /\ k_op' = op
    /\ k_arg' = arg
    /\ k_i' = 1
    /\ k_log0' = kline_log
    /\ k_fetched' = [s \in Symbols |-> 0]
    /\ UNCHANGED kline_log
    /\ UNCHANGED notKline

\* What the body of the loop comes to for one symbol:
\*   "logged"     the fetch returned bars, they were saved, the log was written
\*   "log_failed" fetched and saved, but writing the log failed (swallowed)
\*   "save_failed" the save returned False
\*   "empty"      the fetch returned no bars
\*   "raised"     the fetch failed max_retries times and raised
KlineOutcomes == {"logged", "log_failed", "save_failed", "empty", "raised"}

\* the outcomes after which the symbol is appended to failed_symbols: the
\* two else branches and the `except Exception` of the loop body
KlineFailedMutRaisedEscapes(o) == o \in {"save_failed", "empty"}
KlineFailed(o) == o \in {"save_failed", "empty", "raised"}

\* the outcome after which _log_kline_processing has added the symbol to the
\* log: the call stands in the `if success:` branch, after the save
LogsSymbolMutBeforeSave(o) == o \in {"logged", "save_failed"}
LogsSymbol(o) == o = "logged"

\* one iteration of the loop (crawl_kline_data 127-154, resume_crawl 255-278)
KlineStep(o) ==
    /\ k_pc = "running"
    /\ k_i <= Len(k_work)
    /\ LET symbol == k_work[k_i]
       IN /\ k_fetched' = [k_fetched EXCEPT ![symbol] = @ + 1]
          /\ kline_log' = IF LogsSymbol(o) THEN kline_log \cup {symbol}
                                          ELSE kline_log
          /\ processed_count' = IF o \in {"logged", "log_failed"}
                                  THEN processed_count + 1
                                  ELSE processed_count
          /\ failed_symbols' = IF KlineFailed(o)
                                 THEN Append(failed_symbols, symbol)
                                 ELSE failed_symbols
    /\ k_i' = k_i + 1
    /\ UNCHANGED <<k_pc, k_op, k_all, k_work, k_arg, k_log0>>
    /\ UNCHANGED notKline

\* the loop is over: _log_statistics and return
KlineFinish ==
    /\ k_pc = "running"
    /\ k_i > Len(k_work)
    /\ k_pc' = "done"
    /\ UNCHANGED <<k_op, k_all, k_work, k_i, k_arg, k_log0, k_fetched,
                   processed_count, failed_symbols, kline_log>>
    /\ UNCHANGED notKline

\* the operator asks for another run
KlineAgain ==
    /\ k_pc = "done"
    /\ k_pc' = "idle"
    /\ UNCHANGED <<k_op, k_all, k_work, k_i, k_arg, k_log0, k_fetched,
                   processed_count, failed_symbols, kline_log>>
    /\ UNCHANGED notKline

KlineNext ==
    \/ \E op \in {"crawl", "resume"}, arg \in KlineArgs : KlineStart(op, arg)
    \/ \E o \in KlineOutcomes : KlineStep(o)
    \/ KlineFinish
    \/ KlineAgain

\* the snapshots a stock-list crawl has left behind: in CSV mode a stock_info
\* snapshot, or only a stock_list snapshot; in database mode the stocks table
StoreInit ==
    /\ storage_type = "csv"
    /\ stock_info = <<>>
    /\ stock_list = <<>>
    /\ stocks_table = {}

StoreDrawn ==
    /\ storage_type \in StorageTypes
    /\ stock_info \in SeqsUpTo(RowSymbols, MaxStocks)
    /\ stock_list \in SeqsUpTo(RowSymbols, MaxStocks)
    /\ stocks_table \in SUBSET Symbols
    /\ IF storage_type = "csv"
         THEN stocks_table = {} /\ (stock_info = <<>> \/ stock_list = <<>>)
         ELSE stock_info = <<>> /\ stock_list = <<>>

\* the same, for the crawlers that read the stock_info snapshot only
StoreDrawnInfo ==
    /\ StoreDrawn
    /\ stock_list = <<>>

\* ========================================================================
\* FinancialStatementsCrawler: the worklist of the three-statement crawl
\* ========================================================================
StatementTypes == {"income", "balance", "cash"}
\* get_unprocessed_stocks returns unprocessed_symbols[:30]
StatementLimit == 30

StmtInit ==
    /\ stmt_log = {}
    /\ stmt_pc = "idle"
    /\ stmt_result = <<>>
    /\ stmt_log0 = {}
    /\ stmt_i = 1
    /\ stmt_fetched = {}
    /\ stmt_success = 0
    /\ stmt_complete = {}

\* all(f"{symbol}_{stmt_type}" in processed_set for stmt_type in [...])
HasAllStatements(symbol, log) ==
    \A t \in StatementTypes : <<symbol, t>> \in log

\* FinancialStatementsCrawler.get_unprocessed_stocks.  In CSV mode the
\* symbols of the latest stock_info snapshot that lack a logged statement
\* type, at most 30 of them.  In database mode the query is sent through
\* self.data_repo.database, an attribute DataRepository does not have: the
\* AttributeError is caught and the result is [].
GetUnprocessedStocksStmt(log) ==
    IF storage_type = "csv"
      THEN Take(SelectSeq(SymbolsOf(stock_info),
                          LAMBDA x : ~HasAllStatements(x, log)),
                StatementLimit)
      ELSE <<>>

\* a row is appended to the statement log between two runs of the crawl:
\* CSVStorage.save_financial_statement_log, or the INSERT IGNORE of
\* DatabaseManager.save_financial_statement_data.  The crawl itself writes
\* none: CSVStorage.save_financial_statement appends to the statement file
\* only, and DataRepository.save_financial_statement_data fails on
\* self.get_connection, which DataRepository does not have.
StmtLogWrite(symbol, t) ==
    /\ stmt_pc = "idle"
    /\ <<symbol, t>> \notin stmt_log
    /\ stmt_log' = stmt_log \cup {<<symbol, t>>}
    /\ UNCHANGED <<stmt_pc, stmt_result, stmt_log0, stmt_i, stmt_fetched,
                   stmt_success, stmt_complete>>
    /\ UNCHANGED notStmt

\* crawl_financial_statements asks for its worklist (lines 411-426)
StmtQuery ==
    /\ stmt_pc = "idle"
    /\ stmt_result' = GetUnprocessedStocksStmt(stmt_log)
    /\ stmt_log0' = stmt_log
    /\ stmt_pc' = "queried"
    /\ stmt_i' = 1
    /\ stmt_fetched' = {}
    /\ stmt_success' = 0
    /\ stmt_complete' = {}
    /\ UNCHANGED stmt_log
    /\ UNCHANGED notStmt

\* get_all_statements(symbol): `for stmt_type in ['income', 'balance',
\* 'cash']` asks the API for each of the three types; the log is not read
GetAllStatementsRequests(symbol, log) == {<<symbol, t>> : t \in StatementTypes}

\* crawl_single_stock_statements(symbol): True when a statement came back
\* and every statement that came back was saved
CrawlSingleStockStatements(got, saved) == got # {} /\ saved = got

\* one iteration of the loop of crawl_financial_statements (lines 428-444):
\* `got` are the statement types the API returned data for, `saved` those
\* whose save succeeded
StmtCrawlStep(got, saved) ==
    /\ stmt_pc = "queried"
    /\ stmt_i <= Len(stmt_result)
    /\ saved \subseteq got
    /\ stmt_fetched' = stmt_fetched \cup
                         GetAllStatementsRequests(stmt_result[stmt_i], stmt_log)
    /\ stmt_success' = IF CrawlSingleStockStatements(got, saved)
                         THEN stmt_success + 1 ELSE stmt_success
    /\ stmt_complete' = IF got = StatementTypes /\ saved = got
                          THEN stmt_complete \cup {stmt_result[stmt_i]}
                          ELSE stmt_complete
    /\ stmt_i' = stmt_i + 1
    /\ UNCHANGED <<stmt_log, stmt_pc, stmt_result, stmt_log0>>
    /\ UNCHANGED notStmt

\* the loop is over (or the worklist was empty) and the run returns; its
\* locals are gone with it
StmtFinish ==
    /\ stmt_pc = "queried"
    /\ stmt_i > Len(stmt_result)
    /\ stmt_pc' = "idle"
    /\ stmt_result' = <<>>
    /\ stmt_log0' = {}
    /\ stmt_i' = 1
    /\ stmt_fetched' = {}
    /\ stmt_success' = 0
    /\ stmt_complete' = {}
    /\ UNCHANGED stmt_log
    /\ UNCHANGED notStmt

StmtNext ==
    \/ \E symbol \in Symbols, t \in StatementTypes : StmtLogWrite(symbol, t)
    \/ StmtQuery
    \/ \E got \in SUBSET StatementTypes, saved \in SUBSET StatementTypes :
         StmtCrawlStep(got, saved)
    \/ StmtFinish

\* ========================================================================
\* FinancialCrawler: the headline-indicator crawl and its processing log
\* ========================================================================
ReportDates == {"2023-12-31", "2024-12-31"}
\* get_unprocessed_stocks returns unprocessed_symbols[:50]
FinmainLimit == 50

FinInit ==
    /\ fin_log = {}
    /\ f_pc = "idle"
    /\ f_work = <<>>
    /\ f_i = 1
    /\ f_log0 = {}
    /\ f_fetched = [s \in Symbols |-> 0]
    /\ f_success = 0
    /\ f_error = 0

\* [log.get('compcode', '') for log in processed_logs]
LoggedCompcodes(log) == {e[1] : e \in log}

\* the filter of get_unprocessed_stocks in CSV mode (lines 220-224)
FinUnloggedMutAll(rows, log) == SymbolsOf(rows)
FinUnlogged(rows, log) ==
    SelectSeq(SymbolsOf(rows), LAMBDA x : x \notin LoggedCompcodes(log))

\* FinancialCrawler.get_unprocessed_stocks.  In database mode the query is
\* sent through self.data_repo.database, an attribute DataRepository does not
\* have: the AttributeError is caught and the result is [].
GetUnprocessedStocksFin ==
    IF storage_type = "csv"
      THEN Take(FinUnlogged(stock_info, fin_log), FinmainLimit)
      ELSE <<>>

\* What fetching and saving one security comes to: the report dates of the
\* records that were saved (none when the fetch returned nothing or the save
\* failed) and, among them, those whose log row was written.  In CSV mode
\* _save_financial_log appends the row and a failure is swallowed; in
\* database mode DataRepository.save_finmain_data writes the row with the
\* record, and the crawler's own _save_financial_log fails on
\* self.data_repo.database.
FinOutcomes ==
    {[saved |-> D, logged |-> L] : D \in SUBSET ReportDates, L \in SUBSET ReportDates}

FinOutcomeOk(o) ==
    /\ o.logged \subseteq o.saved
    /\ storage_type = "database" => o.logged = o.saved

FinLogAfter(symbol, o) == fin_log \cup {<<symbol, d>> : d \in o.logged}

\* `if financial_data_list:` and `if self.save_financial_data(...)`: the
\* security counts as a success when a record of it was saved; a fetch that
\* failed three times (None), an empty list, a save that returned False and
\* an exception caught by the loop's handler all count as an error
FinSucceeded(o) == o.saved # {}

\* crawl_financial_data up to its loop (lines 249-262)
FinStart ==
    /\ f_pc = "idle"
    /\ f_work' = GetUnprocessedStocksFin
    /\ f_pc' = IF GetUnprocessedStocksFin = <<>> THEN "done" ELSE "running"
    /\ f_i' = 1
    /\ f_log0' = fin_log
    /\ f_fetched' = [s \in Symbols |-> 0]
    /\ f_success' = 0
    /\ f_error' = 0
    /\ UNCHANGED fin_log
    /\ UNCHANGED notFin

\* one iteration of the loop of crawl_financial_data (lines 264-287)
FinStep(o) ==
    /\ f_pc = "running"
    /\ f_i <= Len(f_work)
    /\ FinOutcomeOk(o)
    /\ f_fetched' = [f_fetched EXCEPT ![f_work[f_i]] = @ + 1]
    /\ fin_log' = FinLogAfter(f_work[f_i], o)
    /\ f_success' = IF FinSucceeded(o) THEN f_success + 1 ELSE f_success
    /\ f_error' = IF FinSucceeded(o) THEN f_error ELSE f_error + 1
    /\ f_i' = f_i + 1
    /\ UNCHANGED <<f_pc, f_work, f_log0>>
    /\ UNCHANGED notFin

\* the loop is over
FinFinish ==
    /\ f_pc = "running"
    /\ f_i > Len(f_work)
    /\ f_pc' = "done"
    /\ UNCHANGED <<fin_log, f_work, f_i, f_log0, f_fetched, f_success, f_error>>
    /\ UNCHANGED notFin

\* the operator asks for another run
FinAgain ==
    /\ f_pc = "done"
    /\ f_pc' = "idle"
    /\ UNCHANGED <<fin_log, f_work, f_i, f_log0, f_fetched, f_success, f_error>>
    /\ UNCHANGED notFin

\* crawl_single_stock_financial(symbol): fetches whatever the log says
FinSingle(symbol, o) ==
    /\ f_pc = "idle"
    /\ FinOutcomeOk(o)
    /\ fin_log' = FinLogAfter(symbol, o)
    /\ UNCHANGED <<f_pc, f_work, f_i, f_log0, f_fetched, f_success, f_error>>
    /\ UNCHANGED notFin

FinNext ==
    \/ FinStart
    \/ \E o \in FinOutcomes : FinStep(o)
    \/ FinFinish
    \/ FinAgain
    \/ \E symbol \in Symbols, o \in FinOutcomes : FinSingle(symbol, o)

\* ========================================================================
\* DataRepository.save_stock_basic_info: the Security record of a symbol
\* ========================================================================
CompanyNames == {"Alpha", "Beta"}
Prices == {10, 11}
\* a Security record as the stock crawler hands it to the repository
StockRecords == [symbol : Symbols, name : CompanyNames, current : Prices]

\* csv.DictWriter writes every cell as text and csv.DictReader reads it back
\* as text
CsvRow(rec) ==
    [symbol |-> rec.symbol, name |-> rec.name, current |-> ToString(rec.current)]

\* a call of the repository, as the caller sees it: the entity type, the
\* record handed over, whether the backend's I/O went through, and the
\* boolean the method returned
NoCall == [entity |-> "none", rec |-> [symbol |-> ""], io_ok |-> TRUE, ok |-> TRUE]
RepoCall(entity, rec, io_ok, ok) ==
    [entity |-> entity, rec |-> rec, io_ok |-> io_ok, ok |-> ok]

UpsertInit ==
    /\ csv_rows = <<>>
    /\ db_rows = {}
    /\ up_saved = <<>>
    /\ up_last = NoCall
    /\ klog_rows = {}

\* the snapshots play no part in the save; the storage type does
StoreEither ==
    /\ storage_type \in StorageTypes
    /\ stock_info = <<>>
    /\ stock_list = <<>>
    /\ stocks_table = {}

\* CSVStorage.append_data([rec], 'stock_info', 'symbol'): the rows to write,
\* i.e. the record unless a row with its symbol is already in the file
NewData(existing_data, rec) ==
    IF existing_data # <<>>
         /\ rec.symbol \in {existing_data[i].symbol : i \in 1..Len(existing_data)}
      THEN <<>>
      ELSE <<rec>>

\* save_to_csv(new_data, 'stock_info', mode='a')
AppendedRows(rows, new_data) ==
    rows \o [i \in 1..Len(new_data) |-> CsvRow(new_data[i])]

\* INSERT INTO stocks ... ON DUPLICATE KEY UPDATE current = ..., percent = ...,
\* ..., timestamp = CURRENT_TIMESTAMP: a new symbol is inserted whole, a known
\* symbol has its quote columns updated and keeps compcode and compsname
UpsertedRows(rows, rec) ==
    IF \E x \in rows : x.symbol = rec.symbol
      THEN {IF x.symbol = rec.symbol THEN [x EXCEPT !.current = rec.current] ELSE x
              : x \in rows}
      ELSE rows \cup {rec}

\* DataRepository.save_stock_basic_info(rec).  io_ok: the file write or the
\* SQL statement went through.  In CSV mode the method returns True whatever
\* append_data returned; in database mode a failed statement raises and the
\* method returns False.
SaveStockBasicInfo(rec, io_ok) ==
    /\ Len(up_saved) < MaxSaves
    /\ IF storage_type = "csv"
         THEN /\ csv_rows' = IF io_ok THEN AppendedRows(csv_rows, NewData(csv_rows, rec))
                                      ELSE csv_rows
              /\ up_saved' = IF io_ok \/ NewData(csv_rows, rec) = <<>>
                               THEN Append(up_saved, rec) ELSE up_saved
              /\ up_last' = RepoCall("stock", rec, io_ok, TRUE)
              /\ UNCHANGED db_rows
         ELSE /\ db_rows' = IF io_ok THEN UpsertedRows(db_rows, rec) ELSE db_rows
              /\ up_saved' = IF io_ok THEN Append(up_saved, rec) ELSE up_saved
              /\ up_last' = RepoCall("stock", rec, io_ok, io_ok)
              /\ UNCHANGED csv_rows
    /\ UNCHANGED klog_rows
    /\ UNCHANGED notUp

\* DataRepository.log_kline_processing(symbol).  In CSV mode
\* append_data([{symbol, timestamp}], 'kline_log', 'symbol') and True whatever
\* it returned; in database mode INSERT INTO kline_log, and False when the
\* statement raises.
LogKlineProcessing(symbol, io_ok) ==
    /\ klog_rows' = IF io_ok THEN klog_rows \cup {symbol} ELSE klog_rows
    /\ up_last' = RepoCall("kline_log", [symbol |-> symbol], io_ok,
                           IF storage_type = "csv" THEN TRUE ELSE io_ok)
    /\ UNCHANGED <<csv_rows, db_rows, up_saved>>
    /\ UNCHANGED notUp

\* DataRepository.save_financial_statement_data(symbol, statement_type, data),
\* in either mode: `with self.get_connection() as conn` raises AttributeError,
\* DataRepository having no get_connection; the handler logs it and the
\* method returns False with nothing written
SaveFinancialStatementData(symbol, t) ==
    /\ up_last' = RepoCall("statement", [symbol |-> symbol, statement_type |-> t],
                           TRUE, FALSE)
    /\ UNCHANGED <<csv_rows, db_rows, up_saved, klog_rows>>
    /\ UNCHANGED notUp

\* DataRepository.get_financial_statement_data(symbol, statement_type): the
\* same AttributeError, and [] is returned
GetFinancialStatementData(symbol, t) == {}

UpsertNext ==
    \/ \E rec \in StockRecords, io_ok \in BOOLEAN : SaveStockBasicInfo(rec, io_ok)
    \/ \E symbol \in Symbols, io_ok \in BOOLEAN : LogKlineProcessing(symbol, io_ok)
    \/ \E symbol \in Symbols, t \in StatementTypes :
         SaveFinancialStatementData(symbol, t)

\* ========================================================================
\* XueqiuAuth: the cookie cache and the session
\* ========================================================================
\* the file-backed cache is stale after 24 hours (86400 s)
StalenessWindow == 86400
\* the clock of the model advances by half a window
ClockStep == StalenessWindow \div 2

CookieNames == {"u", "s", "acw_sc__v2"}
\* the order in which a cookie dict lists its keys
CookieNameOrder == <<"u", "s", "acw_sc__v2">>
ValuesOf(n) ==
    IF n = "u" THEN {"0", "123"}
    ELSE IF n = "s" THEN {"default_session", "sess"}
    ELSE {"tok"}
CookieValues == UNION {ValuesOf(n) : n \in CookieNames}
\* a cookie dict: a function from the names it holds to their values
CookieMaps ==
    {m \in UNION {[D -> CookieValues] : D \in SUBSET CookieNames} :
       \A n \in DOMAIN m : m[n] \in ValuesOf(n)}
\* {} (and None, which the manager treats alike: both are falsy)
NoCookies == [n \in {} |-> ""]
Truthy(m) == DOMAIN m # {}

\* json.dump of the 'cookies' object: its members, as name/value pairs
JsonDump(m) ==
    LET names == SelectSeq(CookieNameOrder, LAMBDA n : n \in DOMAIN m)
    IN  [i \in 1..Len(names) |-> <<names[i], m[names[i]]>>]
\* json.load of the 'cookies' object: a dict, the last member of a name winning
JsonLoad(text) ==
    [n \in {text[i][1] : i \in 1..Len(text)} |->
       text[CHOOSE i \in 1..Len(text) :
              /\ text[i][1] = n
              /\ \A j \in (i + 1)..Len(text) : text[j][1] # n][2]]

AuthInit ==
    /\ cookie_file = [state |-> "absent", cookies |-> <<>>, timestamp |-> 0]
    /\ now = 0
    /\ session = [made |-> FALSE, cookies |-> NoCookies]
    /\ a_op = "none"
    /\ a_result = NoCookies
    /\ a_requests = 0
    /\ a_path = "none"
    /\ persisted = [ok |-> FALSE, cookies |-> NoCookies, at |-> 0]

\* time.time() - timestamp < 86400
IsFreshMutInverted(t, timestamp) == t - timestamp >= StalenessWindow
IsFresh(t, timestamp) == t - timestamp < StalenessWindow

\* XueqiuAuth._load_saved_cookies: reads the file, contacts nothing.  A
\* missing file, a stale timestamp and a file json.load rejects all give {}.
LoadSavedCookies ==
    IF cookie_file.state = "ok" /\ IsFresh(now, cookie_file.timestamp)
      THEN JsonLoad(cookie_file.cookies)
      ELSE NoCookies

\* XueqiuAuth._save_cookies: the file is written whole, or the directory or
\* the file cannot be opened and nothing changes, or the file is opened
\* (truncated) and the dump fails part-way
SaveOutcomes == {"written", "not_opened", "torn"}
FileAfterSave(c, outcome) ==
    IF outcome = "written"
      THEN [state |-> "ok", cookies |-> JsonDump(c), timestamp |-> now]
    ELSE IF outcome = "torn"
      THEN [state |-> "corrupt", cookies |-> <<>>, timestamp |-> 0]
    ELSE cookie_file
PersistedAfterSave(c, outcome) ==
    IF outcome = "written" THEN [ok |-> TRUE, cookies |-> c, at |-> now]
    ELSE IF outcome = "torn" THEN [ok |-> FALSE, cookies |-> NoCookies, at |-> 0]
    ELSE persisted

\* XueqiuAuth._validate_cookies: u and s must be present, then a GET of the
\* homepage must answer 200 (http_ok)
HasRequired(c) == Truthy(c) /\ {"u", "s"} \subseteq DOMAIN c
ValidateCookies(c, http_ok) == HasRequired(c) /\ http_ok
ValidateRequests(c) == IF HasRequired(c) THEN 1 ELSE 0

\* what the cookie-less GET of the homepage answers: a status, and on 200
\* the cookies the site has set, u and s each set or not
SiteCookieMaps ==
    {m \in CookieMaps :
       /\ DOMAIN m \subseteq {"u", "s"}
       /\ \A n \in DOMAIN m : m[n] \in {"123", "sess"}}
BaseResponses ==
    {[status_ok |-> TRUE, cookies |-> m] : m \in SiteCookieMaps}
      \cup {[status_ok |-> FALSE, cookies |-> NoCookies]}
\* XueqiuAuth._get_base_cookies: on 200 the harvested cookies with u
\* defaulted to "0" and s to "default_session"; None otherwise
GetBaseCookies(resp) ==
    IF resp.status_ok
      THEN [n \in DOMAIN resp.cookies \cup {"u", "s"} |->
              IF n \in DOMAIN resp.cookies THEN resp.cookies[n]
              ELSE IF n = "u" THEN "0" ELSE "default_session"]
      ELSE NoCookies

\* _generate_acw_sc_v2: a token, or None (written "")
AcwTokens == {"tok", ""}

\* what the environment answers while cookies are generated and saved
AuthEnvs ==
    [base : BaseResponses, acw : AcwTokens, full_valid : BOOLEAN,
     save : SaveOutcomes]

\* XueqiuAuth._generate_fresh_cookies, with the path taken and the requests
GenerateFreshCookies(e) ==
    LET base == GetBaseCookies(e.base)
        full == [n \in DOMAIN base \cup {"acw_sc__v2"} |->
                   IF n = "acw_sc__v2" THEN e.acw ELSE base[n]]
    IN  IF ~Truthy(base)
          THEN [cookies |-> NoCookies, path |-> "failed", requests |-> 1]
        ELSE IF e.acw = ""
          THEN [cookies |-> base, path |-> "base_no_token", requests |-> 1]
        ELSE IF ValidateCookies(full, e.full_valid)
          THEN [cookies |-> full, path |-> "fresh", requests |-> 2]
        ELSE [cookies |-> base, path |-> "base_unvalidated", requests |-> 2]

\* get_cookies from `cookies = self._generate_fresh_cookies()` on (lines
\* 49-59), after `tried` validation requests: the returned map, the path
\* taken, the requests issued, and the cookie file afterwards
\* (_save_cookies is called with a non-empty result only)
FreshOutcome(tried, e) ==
    LET fresh == GenerateFreshCookies(e)
    IN  IF Truthy(fresh.cookies)
          THEN [cookies |-> fresh.cookies, path |-> fresh.path,
                requests |-> tried + fresh.requests,
                file |-> FileAfterSave(fresh.cookies, e.save),
                persisted |-> PersistedAfterSave(fresh.cookies, e.save)]
          ELSE [cookies |-> NoCookies, path |-> fresh.path,
                requests |-> tried + fresh.requests,
                file |-> cookie_file, persisted |-> persisted]

\* XueqiuAuth.get_cookies(force_refresh): what a call can come to, over the
\* answers of the environment.  Unless a refresh is forced, saved cookies
\* that hold u and s are validated by a request and returned when it answers
\* 200; in every other case cookies are generated.
CookiesOutcomes(force_refresh) ==
    LET saved == LoadSavedCookies
        tried == IF force_refresh THEN 0 ELSE ValidateRequests(saved)
    IN  (IF ~force_refresh /\ ValidateCookies(saved, TRUE)
           THEN {[cookies |-> saved, path |-> "cached", requests |-> tried,
                  file |-> cookie_file, persisted |-> persisted]}
           ELSE {})
          \cup {FreshOutcome(tried, e) : e \in AuthEnvs}

GetCookies(force_refresh) ==
    \E out \in CookiesOutcomes(force_refresh) :
        /\ a_op' = "get_cookies"
        /\ a_result' = out.cookies
        /\ a_requests' = out.requests
        /\ a_path' = out.path
        /\ cookie_file' = out.file
        /\ persisted' = out.persisted
        /\ UNCHANGED <<now, session>>
        /\ UNCHANGED notAuth

\* XueqiuAuth.get_session: the session is built on the first call, from
\* get_cookies(), and handed out as it is afterwards
GetSession ==
    /\ a_op' = "get_session"
    /\ IF session.made
         THEN /\ a_result' = session.cookies
              /\ a_requests' = 0
              /\ UNCHANGED <<session, a_path, cookie_file, persisted>>
         ELSE \E out \in CookiesOutcomes(FALSE) :
                /\ session' = [made |-> TRUE, cookies |-> out.cookies]
                /\ a_result' = out.cookies
                /\ a_requests' = out.requests
                /\ a_path' = out.path
                /\ cookie_file' = out.file
                /\ persisted' = out.persisted
    /\ UNCHANGED now
    /\ UNCHANGED notAuth

\* XueqiuAuth.manual_login with the cookies c the operator typed: validated,
\* then saved.  The requests issued and the cookie file afterwards.
ManualLoginOutcome(c, http_ok, outcome) ==
    IF ValidateCookies(c, http_ok)
      THEN [requests |-> 1, file |-> FileAfterSave(c, outcome),
            persisted |-> PersistedAfterSave(c, outcome)]
      ELSE [requests |-> ValidateRequests(c), file |-> cookie_file,
            persisted |-> persisted]

\* what a manual login can come to, over what is typed and what is answered
ManualLoginOutcomes ==
    {ManualLoginOutcome(c, http_ok, outcome) :
       c \in {m \in CookieMaps : Truthy(m)}, http_ok \in BOOLEAN,
       outcome \in SaveOutcomes}

\* the method returns no map
ManualLogin ==
    \E out \in ManualLoginOutcomes :
        /\ a_op' = "manual_login"
        /\ a_result' = NoCookies
        /\ a_requests' = out.requests
        /\ a_path' = "none"
        /\ cookie_file' = out.file
        /\ persisted' = out.persisted
        /\ UNCHANGED <<now, session>>
        /\ UNCHANGED notAuth

\* a reload of the cache on its own: _load_saved_cookies()
LoadSaved ==
    /\ a_op' = "load"
    /\ a_result' = LoadSavedCookies
    /\ a_requests' = 0
    /\ a_path' = "none"
    /\ UNCHANGED <<cookie_file, now, session, persisted>>
    /\ UNCHANGED notAuth

\* time passes
Tick ==
    /\ now < MaxTicks * ClockStep
    /\ now' = now + ClockStep
    /\ UNCHANGED <<cookie_file, session, a_op, a_result, a_requests, a_path,
                   persisted>>
    /\ UNCHANGED notAuth

\* the next process invocation: a new XueqiuAuth, the same cookie file
ProcessRestart ==
    /\ session.made
    /\ session' = [made |-> FALSE, cookies |-> NoCookies]
    /\ a_op' = "none"
    /\ a_result' = NoCookies
    /\ a_requests' = 0
    /\ a_path' = "none"
    /\ UNCHANGED <<cookie_file, now, persisted>>
    /\ UNCHANGED notAuth

AuthNext ==
    \/ \E force_refresh \in BOOLEAN : GetCookies(force_refresh)
    \/ GetSession
    \/ ManualLogin
    \/ LoadSaved
    \/ Tick
    \/ ProcessRestart

\* ========================================================================
\* DatabaseManager: the connection pool
\* ========================================================================
\* self._max_connections = pool_size * 2
MaxConnections == PoolSize * 2

\* where a thread can be in get_connection: outside it ("idle"), asleep
\* inside `with self._lock` ("sleeping"), about to replace a dead connection
\* ("connect"), unwinding from a failed replacement ("unwind"), or in the
\* body of its `with` statement ("using").  A thread between the read and
\* the write of `self._created_connections += 1` is counted in `reading`.
Positions == {"idle", "sleeping", "connect", "unwind", "using"}
\* the counter is followed from MinCreated to MaxCreated
MinCreated == 0 - MaxLost
CounterValues == MinCreated..MaxCreated

PoolInit ==
    /\ pool = 0
    /\ created = 0
    /\ lock = "free"
    /\ at = [p \in Positions |-> IF p = "idle" THEN NumThreads ELSE 0]
    /\ reading = [v \in CounterValues |-> 0]
    /\ closed_all = FALSE

\* one thread goes from one position to another
Move(from, to) ==
    IF from = to THEN at
    ELSE [at EXCEPT ![from] = @ - 1, ![to] = @ + 1]

RECURSIVE ReadingFrom(_)
ReadingFrom(v) == IF v > MaxCreated THEN 0 ELSE reading[v] + ReadingFrom(v + 1)
\* the connections that are open: the idle ones, and those of the threads
\* that hold an open connection
Existing == pool + at["using"] + ReadingFrom(MinCreated)

\* get_connection up to the replacement of a dead connection (lines 43-59).
\* Under self._lock a pooled connection is popped, or one is created while
\* the counter is below the maximum, or the caller sleeps 0.1 s and calls
\* get_connection again, all inside `with self._lock`; threading.Lock is not
\* reentrant, so the block is entered only while no thread is inside, be it
\* on the first call (from "idle") or on the recursive one (from "sleeping").
\* After the block the connection is pinged and a dead one is closed.
\* connect_ok: pymysql.connect succeeded; valid: the ping was answered.
GetConnectionLocked(from, connect_ok, valid) ==
    /\ at[from] > 0
    /\ lock = "free"
    /\ IF pool > 0
         THEN /\ pool' = pool - 1
              /\ at' = Move(from, IF valid THEN "using" ELSE "connect")
              /\ UNCHANGED <<created, lock>>
       ELSE IF created < MaxConnections
         THEN /\ created' = IF connect_ok THEN created + 1 ELSE created
              /\ at' = Move(from, IF ~connect_ok THEN "idle"
                                  ELSE IF valid THEN "using" ELSE "connect")
              /\ UNCHANGED <<pool, lock>>
       ELSE /\ lock' = "held"
            /\ at' = Move(from, "sleeping")
            /\ UNCHANGED <<pool, created>>
    /\ UNCHANGED <<reading, closed_all>>
    /\ UNCHANGED notPool

\* _create_connection called without the lock (line 60): pymysql.connect,
\* then the read of `self._created_connections += 1`.  A failed connect
\* raises; the closed connection is what the finally block then sees.
ReplaceConnect(connect_ok) ==
    /\ at["connect"] > 0
    /\ created < MaxCreated
    /\ IF connect_ok
         THEN /\ reading' = [reading EXCEPT ![created] = @ + 1]
              /\ at' = [at EXCEPT !["connect"] = @ - 1]
         ELSE /\ at' = Move("connect", "unwind")
              /\ UNCHANGED reading
    /\ UNCHANGED <<pool, created, lock, closed_all>>
    /\ UNCHANGED notPool

\* the write of `self._created_connections += 1`, of the value read plus one
ReplaceIncrement(v) ==
    /\ reading[v] > 0
    /\ created' = v + 1
    /\ reading' = [reading EXCEPT ![v] = @ - 1]
    /\ at' = [at EXCEPT !["using"] = @ + 1]
    /\ UNCHANGED <<pool, lock, closed_all>>
    /\ UNCHANGED notPool

\* the finally block after a failed replacement: under the lock, the closed
\* connection is not valid and close() on it raises before the counter is
\* decremented
ReleaseClosed ==
    /\ at["unwind"] > 0
    /\ lock = "free"
    /\ at' = Move("unwind", "idle")
    /\ UNCHANGED <<pool, created, lock, reading, closed_all>>
    /\ UNCHANGED notPool

\* the finally block (lines 68-79): under the lock, a valid connection goes
\* back to the pool while the pool holds fewer than pool_size; otherwise the
\* connection is closed and the counter decremented
ReleaseConnection(valid) ==
    /\ at["using"] > 0
    /\ lock = "free"
    /\ (pool < PoolSize /\ valid) \/ created > MinCreated
    /\ IF pool < PoolSize /\ valid
         THEN /\ pool' = pool + 1
              /\ UNCHANGED created
         ELSE /\ created' = created - 1
              /\ UNCHANGED pool
    /\ at' = Move("using", "idle")
    /\ UNCHANGED <<lock, reading, closed_all>>
    /\ UNCHANGED notPool

\* close_all_connections: the idle connections are closed and the counter is
\* set to 0, whatever is checked out
CloseAllConnections ==
    /\ lock = "free"
    /\ pool' = 0
    /\ created' = 0
    /\ closed_all' = TRUE
    /\ UNCHANGED <<lock, at, reading>>
    /\ UNCHANGED notPool

PoolNext ==
    \/ \E from \in {"idle", "sleeping"}, connect_ok \in BOOLEAN, valid \in BOOLEAN :
         GetConnectionLocked(from, connect_ok, valid)
    \/ \E connect_ok \in BOOLEAN : ReplaceConnect(connect_ok)
    \/ \E v \in CounterValues : ReplaceIncrement(v)
    \/ ReleaseClosed
    \/ \E valid \in BOOLEAN : ReleaseConnection(valid)
    \/ CloseAllConnections

\* ========================================================================
\* The authentication status checks, and the gate of run.py
\* ========================================================================
\* the cookie maps a check may be given: a cookie may be absent, or present
\* with an empty value
StatusValues(n) == ValuesOf(n) \cup {""}
StatusMaps ==
    {m \in UNION {[D -> CookieValues \cup {""}] : D \in SUBSET CookieNames} :
       \A n \in DOMAIN m : m[n] \in StatusValues(n)}

\* cookies.get(name, default)
CookieGet(c, name, default) == IF name \in DOMAIN c THEN c[name] ELSE default

\* what a check prints about the login state, with the user id it shows
Report(status, user_id) == [status |-> status, user_id |-> user_id]
NoReport == Report("none", "")

\* `user_id = cookies.get('u', '0')` and the branch on it
LoginStateMutInverted(c) ==
    IF CookieGet(c, "u", "0") = "0" THEN Report("logged_in", CookieGet(c, "u", "0"))
                                    ELSE Report("guest", "")
LoginState(c) ==
    IF CookieGet(c, "u", "0") = "0" THEN Report("guest", "")
                                    ELSE Report("logged_in", CookieGet(c, "u", "0"))

\* XueqiuAuth.test_auth, up to the page test: no report on the login state
\* when get_cookies() returned nothing
TestAuth(c) == IF ~Truthy(c) THEN Report("no_cookies", "") ELSE LoginState(c)

\* run.py test_authentication, what it prints
TestAuthenticationReport(c) ==
    IF ~Truthy(c) THEN Report("no_cookies", "") ELSE LoginState(c)

\* ManualCookieManager.validate_cookies: u and s present and not empty
ManualValidateCookies(c) ==
    \A name \in {"u", "s"} : name \in DOMAIN c /\ c[name] # ""

\* ManualCookieManager.check_cookie_status, for an existing cookies.json
CheckCookieStatus(c) ==
    IF ManualValidateCookies(c) THEN LoginState(c) ELSE Report("invalid", "")

StatusChecks == {"test_auth", "test_authentication", "check_cookie_status"}

StatusInit ==
    /\ st_cookies = NoCookies
    /\ st_check = "none"
    /\ st_report = NoReport

StatusDrawn ==
    /\ st_cookies \in StatusMaps
    /\ st_check = "none"
    /\ st_report = NoReport

\* one of the status checks runs on the cookie map
StatusCheck(check) ==
    /\ st_check' = check
    /\ st_report' = CASE check = "test_auth" -> TestAuth(st_cookies)
                       [] check = "test_authentication" ->
                            TestAuthenticationReport(st_cookies)
                       [] check = "check_cookie_status" ->
                            CheckCookieStatus(st_cookies)
    /\ UNCHANGED st_cookies
    /\ UNCHANGED notStatus

StatusNext == \E check \in StatusChecks : StatusCheck(check)

\* run.py test_authentication, what it returns: False without cookies, False
\* in guest mode, else what auth._validate_cookies(cookies) returns
TestAuthenticationMutNoGuestCheck(c, http_ok) ==
    IF ~Truthy(c) THEN FALSE ELSE ValidateCookies(c, http_ok)
TestAuthentication(c, http_ok) ==
    IF ~Truthy(c) THEN FALSE
    ELSE IF CookieGet(c, "u", "0") = "0" THEN FALSE
    ELSE ValidateCookies(c, http_ok)

\* the choices of the menu: '0' leaves, '1'..'7' start an action, anything
\* else is refused
MenuChoices == 0..8
MenuActions == 1..7

CliInit ==
    /\ cli_pc = "start"
    /\ cli_auth = "none"
    /\ cli_http = TRUE
    /\ cli_started = <<>>

\* main(), Step 1: `if not test_authentication(): return`
MainGate(http_ok) ==
    /\ cli_pc = "start"
    /\ cli_http' = http_ok
    /\ cli_auth' = IF TestAuthentication(st_cookies, http_ok) THEN "true" ELSE "false"
    /\ cli_pc' = IF TestAuthentication(st_cookies, http_ok) THEN "menu" ELSE "returned"
    /\ st_check' = "test_authentication"
    /\ st_report' = TestAuthenticationReport(st_cookies)
    /\ UNCHANGED <<st_cookies, cli_started>>
    /\ UNCHANGED notCli

\* main(), Step 2: one round of the `while True` menu loop
MainMenu(choice) ==
    /\ cli_pc = "menu"
    /\ choice \in MenuActions => Len(cli_started) < MaxMenuActions
    /\ cli_pc' = IF choice = 0 THEN "returned" ELSE "menu"
    /\ cli_started' = IF choice \in MenuActions THEN Append(cli_started, choice)
                                                ELSE cli_started
    /\ UNCHANGED <<cli_auth, cli_http, statusVars>>
    /\ UNCHANGED notCli

CliNext ==
    \/ \E http_ok \in BOOLEAN : MainGate(http_ok)
    \/ \E choice \in MenuChoices : MainMenu(choice)

\* ========================================================================
\* FinancialCrawler: from the API's item to the persisted headline record
\* ========================================================================
\* three of the numeric members get_financial_data copies, all alike
NumericFields == {"basiceps", "netprofit", "totalassets"}
\* how the response text spells the value of a numeric member
JsonTokens == {"null", "0", "5"}
\* the numeric members of one item of the response's list: those present,
\* each with its spelling
HeadlineItems == UNION {[D -> JsonTokens] : D \in SUBSET NumericFields}

\* response.text.replace('null', '0'), on the spelling of one value
ReplaceNullMutKeep(token) == token
ReplaceNull(token) == IF token = "null" THEN "0" ELSE token

\* json.loads, on the spelling of one value: null is None
JsonNumber(token) ==
    IF token = "null" THEN None ELSE IF token = "0" THEN 0 ELSE 5

\* item.get(key, default)
ItemGet(item, key, default) ==
    IF key \in DOMAIN item THEN item[key] ELSE default

\* the financial_data dict get_financial_data builds from one item
FinancialData(payload) ==
    LET item == [k \in DOMAIN payload |-> JsonNumber(ReplaceNull(payload[k]))]
    IN  [f \in NumericFields |-> ItemGet(item, f, 0)]

\* csv.DictWriter writes None as the empty cell and a number as its digits
CsvCell(v) == IF v = None THEN "" ELSE IF v = 0 THEN "0" ELSE "5"
FinancialCsvRow(rec) == [f \in DOMAIN rec |-> CsvCell(rec[f])]

HeadInit ==
    /\ h_pc = "idle"
    /\ h_payload = [k \in {} |-> "null"]
    /\ h_record = {}
    /\ h_csv = {}
    /\ h_db = {}

\* get_financial_data(symbol) answered 200 with a list of one item
GetFinancialData(payload) ==
    /\ h_pc = "idle"
    /\ h_payload' = payload
    /\ h_record' = {FinancialData(payload)}
    /\ h_pc' = "fetched"
    /\ UNCHANGED <<h_csv, h_db>>
    /\ UNCHANGED notHead

\* save_financial_data(symbol, financial_data_list) on a repository of the
\* given mode: save_financial_data_by_symbol appends the rows to the CSV
\* file, upsert_finmain_data hands the dict to the INSERT; a write that
\* fails (io_ok false) stores nothing
SaveFinancialData(mode, io_ok) ==
    /\ h_pc = "fetched"
    /\ h_csv' = IF mode = "csv" /\ io_ok
                  THEN {FinancialCsvRow(r) : r \in h_record} ELSE {}
    /\ h_db' = IF mode = "database" /\ io_ok THEN h_record ELSE {}
    /\ h_pc' = "saved"
    /\ UNCHANGED <<h_payload, h_record>>
    /\ UNCHANGED notHead

\* the next security
HeadNextStock ==
    /\ h_pc = "saved"
    /\ h_pc' = "idle"
    /\ h_payload' = [k \in {} |-> "null"]
    /\ h_record' = {}
    /\ h_csv' = {}
    /\ h_db' = {}
    /\ UNCHANGED notHead

HeadNext ==
    \/ \E payload \in HeadlineItems : GetFinancialData(payload)
    \/ \E mode \in StorageTypes, io_ok \in BOOLEAN : SaveFinancialData(mode, io_ok)
    \/ HeadNextStock

\* ========================================================================
\* FinancialStatementsCrawler.calculate_financial_ratios
\* ========================================================================
\* safe_number(data.get(key, [0])[0]): the number under the key, 0 when the
\* key is absent
Field(data, key) == IF key \in DOMAIN data THEN data[key] ELSE 0
\* a dict without keys (cash_flow_data = None is falsy like it)
EmptyDict == [k \in {} |-> 0]

\* the statement rows tried: the keys they carry, each with two values
BalanceRows ==
    [total_assets : {0, 4}, tradable_fnncl_assets : {0, 1},
     lt_equity_invest : {0, 1}, fixed_asset_sum : {0, 2},
     total_holders_equity : {0, 2}]
\* report_kind stands for the report_name: "q1" for a name holding 一季报,
\* "annual" for one holding none of the three period words
IncomeRows ==
    [total_revenue : {0, 3}, profit_total_amt : {0, 1},
     report_kind : {"annual", "q1"}]
CashRows ==
    {EmptyDict} \cup
    [ncf_from_oa : {1}, cash_paid_for_assets : {0, 1},
     net_cash_of_disposal_assets : {0, 1}, net_cash_amt_from_branch : {0, 1},
     net_cash_of_disposal_branch : {0, 1}]

\* days of the report's period (lines 529-539)
ReportDays(income) ==
    LET kind == IF "report_kind" \in DOMAIN income
                  THEN income.report_kind ELSE "annual"
    IN  IF kind = "q1" THEN 90
        ELSE IF kind = "half" THEN 181
        ELSE IF kind = "q3" THEN 273
        ELSE 365

FinanceAsset(b) ==
    Field(b, "tradable_fnncl_assets") + Field(b, "interest_receivable")
    + Field(b, "dividend_receivable") + Field(b, "to_sale_asset")
    + Field(b, "nca_due_within_one_year") + Field(b, "salable_financial_assets")
    + Field(b, "held_to_maturity_invest") + Field(b, "other_eq_ins_invest")
    + Field(b, "other_illiquid_fnncl_assets") + Field(b, "invest_property")
BusinessAsset(b) ==
    Field(b, "total_assets") - FinanceAsset(b) - Field(b, "lt_equity_invest")
LongBusinessAsset(b) ==
    Field(b, "fixed_asset_sum") + Field(b, "construction_in_process_sum")
    + Field(b, "intangible_assets") + Field(b, "goodwill")
WorkingCapital(b) ==
    Field(b, "total_current_assets") - Field(b, "total_current_liab")
PreTaxInterest(i) ==
    Field(i, "net_profit") + Field(i, "income_tax_expenses")
    + Field(i, "financing_expenses")
NetInvestment(c) ==
    Field(c, "cash_paid_for_assets") - Field(c, "net_cash_of_disposal_assets")
NetMerger(c) ==
    Field(c, "net_cash_amt_from_branch") - Field(c, "net_cash_of_disposal_branch")

\* `if total_assets > 0:`
TotalAssetsGuardMutZeroPasses(b) == Field(b, "total_assets") >= 0
TotalAssetsGuard(b) == Field(b, "total_assets") > 0
\* `if (net_investment + ratios['net_merger']) != 0:`
CashSatifyGuard(c) == NetInvestment(c) + NetMerger(c) # 0

\* one assignment ratios[key] = num / den under its `if`; a value that is
\* not a quotient has den 1
Assign(key, guard, num, den) ==
    [key |-> key, guard |-> guard, num |-> num, den |-> den]

\* the assignments of lines 512-558, in order
BalanceIncomeSteps(b, i) ==
    LET ta == Field(b, "total_assets")
        eq == Field(b, "total_holders_equity")
        rev == Field(i, "total_revenue")
        np == Field(i, "net_profit")
        tax == Field(i, "income_tax_expenses")
        pta == Field(i, "profit_total_amt")
        lba == LongBusinessAsset(b)
        days == ReportDays(i)
    IN  << Assign("finance_asset_percent", TotalAssetsGuard(b), FinanceAsset(b), ta),
           Assign("business_asset_percent", TotalAssetsGuard(b), BusinessAsset(b), ta),
           Assign("lt_equity_invest_percent", TotalAssetsGuard(b),
                  Field(b, "lt_equity_invest"), ta),
           Assign("long_business_asset_percent", TotalAssetsGuard(b), lba, ta),
           Assign("z_business_asset_percent", eq > 0, WorkingCapital(b), eq),
           Assign("finance_turnover", eq > 0, ta, eq),
           Assign("business_lever", rev - Field(i, "operating_costs") > 0,
                  rev - Field(i, "operating_cost"),
                  rev - Field(i, "operating_costs")),
           Assign("per_benefit_percent", rev > 0, PreTaxInterest(i), rev),
           Assign("long_asset_turnover_percent", lba > 0, rev * 365, lba * days),
           Assign("business_turnover_percent", WorkingCapital(b) > 0,
                  rev * 365, WorkingCapital(b) * days),
           Assign("financial_cost_percent", PreTaxInterest(i) > 0,
                  np + tax, PreTaxInterest(i)),
           Assign("tax_cost_percent", np + tax > 0, np, np + tax),
           Assign("real_benefit_percent", pta > 0,
                  Field(i, "net_profit_after_nrgal_atsolc"), pta) >>

\* the assignments of the `if cash_flow_data:` block (lines 561-590)
CashSteps(b, i, c) ==
    IF DOMAIN c = {} THEN <<>>
    ELSE
    LET ncf == Field(c, "ncf_from_oa")
        pta == Field(i, "profit_total_amt")
        rev == Field(i, "total_revenue")
        lba == LongBusinessAsset(b)
    IN  << Assign("benefit_percentage", pta > 0, ncf, pta),
           Assign("op_percentage", rev > 0,
                  Field(c, "cash_received_of_sales_service"), rev),
           Assign("net_investment", TRUE, NetInvestment(c), 1),
           Assign("out_lay", TRUE, NetInvestment(c), 1),
           Assign("out_lay_percent", lba > 0, NetInvestment(c), lba),
           Assign("net_merger", TRUE, NetMerger(c), 1),
           Assign("cash_satify_percent", CashSatifyGuard(c), ncf,
                  NetInvestment(c) + NetMerger(c)) >>

\* ratios.update({...}) of lines 593-604
RawSteps(b, i) ==
    << Assign("finance_asset", TRUE, FinanceAsset(b), 1),
       Assign("business_asset", TRUE, BusinessAsset(b), 1),
       Assign("lt_equity_invest", TRUE, Field(b, "lt_equity_invest"), 1),
       Assign("goodwill", TRUE, Field(b, "goodwill"), 1),
       Assign("long_business_asset", TRUE, LongBusinessAsset(b), 1),
       Assign("total_current_assets", TRUE, Field(b, "total_current_assets"), 1),
       Assign("total_current_liab", TRUE, Field(b, "total_current_liab"), 1),
       Assign("total_revenue", TRUE, Field(i, "total_revenue"), 1),
       Assign("net_profit", TRUE, Field(i, "net_profit"), 1),
       Assign("profit_total_amt", TRUE, Field(i, "profit_total_amt"), 1) >>

\* the try block run over its assignments: a division by zero raises, the
\* handler logs the error, and the ratios assigned before it are returned
RECURSIVE RunSteps(_, _)
RunSteps(steps, acc) ==
    IF steps = <<>> \/ acc.error THEN acc
    ELSE LET st == Head(steps)
         IN  IF ~st.guard THEN RunSteps(Tail(steps), acc)
             ELSE IF st.den = 0
               THEN [acc EXCEPT !.error = TRUE]
             ELSE RunSteps(Tail(steps),
                    [acc EXCEPT !.ratios =
                       [k \in DOMAIN acc.ratios \cup {st.key} |->
                          IF k = st.key THEN <<st.num, st.den>>
                          ELSE acc.ratios[k]]])

NoRatios == [ratios |-> [k \in {} |-> <<0, 1>>], error |-> FALSE]

CalculateFinancialRatios(b, i, c) ==
    RunSteps(BalanceIncomeSteps(b, i) \o CashSteps(b, i, c) \o RawSteps(b, i),
             NoRatios)

RatioInit ==
    /\ r_pc = "idle"
    /\ r_balance = EmptyDict
    /\ r_income = EmptyDict
    /\ r_cash = EmptyDict
    /\ r_out = NoRatios

\* calculate_financial_ratios(balance_data, income_data, cash_flow_data)
CalculateRatios(b, i, c) ==
    /\ r_pc = "idle"
    /\ r_balance' = b
    /\ r_income' = i
    /\ r_cash' = c
    /\ r_out' = CalculateFinancialRatios(b, i, c)
    /\ r_pc' = "done"
    /\ UNCHANGED notRatio

\* the next report period
RatioNextPeriod ==
    /\ r_pc = "done"
    /\ r_pc' = "idle"
    /\ r_balance' = EmptyDict
    /\ r_income' = EmptyDict
    /\ r_cash' = EmptyDict
    /\ r_out' = NoRatios
    /\ UNCHANGED notRatio

RatioNext ==
    \/ \E b \in BalanceRows, i \in IncomeRows, c \in CashRows :
         CalculateRatios(b, i, c)
    \/ RatioNextPeriod

\* ========================================================================
\* StockCrawler._parse_stock_data: a quote-list row to a Security record
\* ========================================================================
\* a cell of the row, or a value of the record: a string, a number (in
\* tenths, so 10.5 is 105), a boolean or None
Str(s) == [kind |-> "str", text |-> s, num |-> 0]
Num(n) == [kind |-> "num", text |-> "", num |-> n]
Bool(b) == [kind |-> "bool", text |-> "", num |-> IF b THEN 10 ELSE 0]
NoneCell == [kind |-> "none", text |-> "", num |-> 0]

\* Python's truth value of a cell
CellTruthy(c) == IF c.kind = "str" THEN c.text # "" ELSE c.num # 0
\* `x or 0`
OrZero(c) == IF CellTruthy(c) THEN c ELSE Num(0)
\* Python's ==: a bool is the number 1 or 0, a string equals a string only
PyEq(a, b) ==
    IF a.kind = "str" \/ b.kind = "str" THEN a = b
    ELSE IF a.kind = "none" \/ b.kind = "none" THEN a = b
    ELSE a.num = b.num

\* the row of test_parse_stock_data (indices from 0 in the code, from 1 here)
TestRow ==
    << Str("SZ000001"), Str("PingAnBank"), Num(105), Num(0), Num(25), Num(100),
       Num(110), Num(90), Num(120), Num(10000000), Num(50000000),
       Num(100000000), Num(150), Num(80), Bool(TRUE) >>
\* rows that differ from it in the cells the parser reads under `or 0`
CellChoices(i) ==
    IF i \in {3, 5, 10, 13} THEN {TestRow[i], Num(0), NoneCell}
    ELSE IF i = 15 THEN {TestRow[i], Bool(FALSE), Num(70)}
    ELSE {TestRow[i]}
QuoteRows ==
    {[i \in 1..15 |->
        IF i = 3 THEN c3 ELSE IF i = 5 THEN c5 ELSE IF i = 10 THEN c10
        ELSE IF i = 13 THEN c13 ELSE IF i = 15 THEN c15 ELSE TestRow[i]] :
       c3 \in CellChoices(3), c5 \in CellChoices(5), c10 \in CellChoices(10),
       c13 \in CellChoices(13), c15 \in CellChoices(15)}

\* _parse_stock_data(stock_item, stock_type): stock_item[k] is row[k + 1]
ParseStockData(row) ==
    [symbol |-> row[1],
     code |-> row[1],
     name |-> row[2],
     current |-> OrZero(row[3]),
     percent |-> OrZero(row[5]),
     high52w |-> OrZero(row[14]),
     low52w |-> OrZero(row[15]),
     marketcapital |-> OrZero(row[12]),
     amount |-> OrZero(row[11]),
     volume |-> OrZero(row[10]),
     pe_ttm |-> OrZero(row[13])]

NoStockData == ParseStockData([i \in 1..15 |-> NoneCell])

ParseInit ==
    /\ p_pc = "idle"
    /\ p_row = [i \in 1..15 |-> NoneCell]
    /\ p_out = NoStockData

\* one row of the page handed to the parser
ParseRow(row) ==
    /\ p_pc = "idle"
    /\ p_row' = row
    /\ p_out' = ParseStockData(row)
    /\ p_pc' = "parsed"
    /\ UNCHANGED notParse

\* the next row of the page
ParseNextRow ==
    /\ p_pc = "parsed"
    /\ p_pc' = "idle"
    /\ p_row' = [i \in 1..15 |-> NoneCell]
    /\ p_out' = NoStockData
    /\ UNCHANGED notParse

ParseNext ==
    \/ \E row \in QuoteRows : ParseRow(row)
    \/ ParseNextRow

\* ========================================================================
\* KlineCrawler._fetch_kline_data_with_retry
\* ========================================================================
\* what one session.get of the K-line endpoint comes to: an exception of the
\* transport, or a status; with status 200 the error_code of the body and
\* its items: none, bars that convert, or bars a field of which is null
\* (round(None, 2) raises TypeError)
KlineResponse(http, error_code, items) ==
    [http |-> http, error_code |-> error_code, items |-> items]
KlineResponses ==
    {KlineResponse("exception", 0, "empty"), KlineResponse("500", 0, "empty")}
    \cup {KlineResponse("200", e, i) :
            e \in {0, 400016}, i \in {"empty", "bars", "malformed"}}

\* the attempt raises inside the try block: a transport error, a status
\* other than 200, an error_code other than 0, or bars that do not convert
AttemptFailsMutIgnoresErrorCode(r) ==
    \/ r.http # "200"
    \/ r.items = "malformed"
AttemptFails(r) ==
    \/ r.http # "200"
    \/ r.error_code # 0
    \/ r.items = "malformed"

\* what a call returned: nothing yet, [] or the bars of an attempt
FetchResult(kind, n) == [kind |-> kind, attempt |-> n]
NoFetchResult == FetchResult("none", 0)

KfetchInit ==
    /\ kf_pc = "idle"
    /\ kf_max = 0
    /\ kf_trace = <<>>
    /\ kf_sleeps = 0
    /\ kf_result = NoFetchResult

\* _fetch_kline_data_with_retry(symbol) on a crawler built with max_retries:
\* with max_retries 0 the loop has no iteration and line 373 returns []
KfetchCall(max) ==
    /\ kf_pc = "idle"
    /\ kf_max' = max
    /\ kf_trace' = <<>>
    /\ kf_sleeps' = 0
    /\ kf_pc' = IF max = 0 THEN "returned" ELSE "loop"
    /\ kf_result' = IF max = 0 THEN FetchResult("empty", 0) ELSE NoFetchResult
    /\ UNCHANGED notKfetch

\* one iteration of `for attempt in range(self.max_retries)`: the request,
\* the tests of the response, and the except branch (sleep 1 s and go on, or
\* raise on the last attempt)
KfetchAttempt(r) ==
    /\ kf_pc = "loop"
    /\ Len(kf_trace) < kf_max
    /\ kf_trace' = Append(kf_trace, r)
    /\ IF AttemptFails(r)
         THEN IF Len(kf_trace) + 1 < kf_max
                THEN /\ kf_sleeps' = kf_sleeps + 1
                     /\ kf_pc' = "loop"
                     /\ kf_result' = kf_result
                ELSE /\ kf_sleeps' = kf_sleeps
                     /\ kf_pc' = "raised"
                     /\ kf_result' = kf_result
         ELSE /\ kf_sleeps' = kf_sleeps
              /\ kf_pc' = "returned"
              /\ kf_result' = IF r.items = "empty"
                                THEN FetchResult("empty", Len(kf_trace) + 1)
                                ELSE FetchResult("bars", Len(kf_trace) + 1)
    /\ UNCHANGED kf_max
    /\ UNCHANGED notKfetch

\* the caller has the result, or the exception
KfetchDone ==
    /\ kf_pc \in {"returned", "raised"}
    /\ kf_pc' = "idle"
    /\ kf_max' = 0
    /\ kf_trace' = <<>>
    /\ kf_sleeps' = 0
    /\ kf_result' = NoFetchResult
    /\ UNCHANGED notKfetch

KfetchNext ==
    \/ \E max \in 0..MaxRetriesArg : KfetchCall(max)
    \/ \E r \in KlineResponses : KfetchAttempt(r)
    \/ KfetchDone

\* ========================================================================
\* FinancialStatementsCrawler._try_api_endpoints
\* ========================================================================
\* urls_to_try for a statement type: its endpoint, then its _backup endpoint
UrlsToTry == <<"primary", "backup">>

\* what one session.get comes to: a 200 answer holding a list ("usable"), a
\* 200 answer holding none or one json.loads rejects ("no_data"), 404,
\* another status ("500"), or an exception of the transport
EndpointOutcomes == {"usable", "no_data", "404", "500", "exception"}

\* `elif response.status_code == 404: ... break`
AbandonsEndpointMutNever(o) == FALSE
AbandonsEndpoint(o) == o = "404"

GetFrom(url, o) == [ev |-> "get", url |-> url, outcome |-> o]
\* time.sleep(0.5), with the timestamp refreshed after it
HalfSecond(url) == [ev |-> "sleep", url |-> url, outcome |-> ""]

EndpointResult(kind, url) == [kind |-> kind, url |-> url]

EpInit ==
    /\ ep_pc = "idle"
    /\ ep_max = 0
    /\ ep_url = 1
    /\ ep_attempt = 0
    /\ ep_trace = <<>>
    /\ ep_result = EndpointResult("none", "")

\* _try_api_endpoints(statement_type, symbol, max_retries) up to its loops
EpCall(max) ==
    /\ ep_pc = "idle"
    /\ ep_max' = max
    /\ ep_url' = 1
    /\ ep_attempt' = 0
    /\ ep_trace' = <<>>
    /\ ep_pc' = IF max = 0 THEN "returned" ELSE "loop"
    /\ ep_result' = IF max = 0 THEN EndpointResult("None", "")
                    ELSE EndpointResult("none", "")
    /\ UNCHANGED notEp

\* one iteration of the inner loop (lines 127-174): the request, the return
\* on a usable answer, the break on 404, the wait before another attempt;
\* when the endpoint has no attempt left the outer loop takes the next one,
\* and after the last one line 176 returns None
EpAttempt(o) ==
    /\ ep_pc = "loop"
    /\ LET url == UrlsToTry[ep_url]
           got == Append(ep_trace, GetFrom(url, o))
           leaves == AbandonsEndpoint(o) \/ ep_attempt + 1 >= ep_max
       IN  IF o = "usable"
             THEN /\ ep_trace' = got
                  /\ ep_pc' = "returned"
                  /\ ep_result' = EndpointResult("data", url)
                  /\ UNCHANGED <<ep_url, ep_attempt>>
           ELSE /\ ep_trace' = IF ~AbandonsEndpoint(o) /\ ep_attempt < ep_max - 1
                                 THEN Append(got, HalfSecond(url)) ELSE got
                /\ IF ~leaves
                     THEN /\ ep_attempt' = ep_attempt + 1
                          /\ UNCHANGED <<ep_url, ep_pc, ep_result>>
                   ELSE IF ep_url < Len(UrlsToTry)
                     THEN /\ ep_url' = ep_url + 1
                          /\ ep_attempt' = 0
                          /\ UNCHANGED <<ep_pc, ep_result>>
                   ELSE /\ ep_pc' = "returned"
                        /\ ep_result' = EndpointResult("None", "")
                        /\ UNCHANGED <<ep_url, ep_attempt>>
    /\ UNCHANGED ep_max
    /\ UNCHANGED notEp

\* the caller has the result
EpDone ==
    /\ ep_pc = "returned"
    /\ ep_pc' = "idle"
    /\ ep_max' = 0
    /\ ep_url' = 1
    /\ ep_attempt' = 0
    /\ ep_trace' = <<>>
    /\ ep_result' = EndpointResult("none", "")
    /\ UNCHANGED notEp

EpNext ==
    \/ \E max \in 0..MaxRetriesArg : EpCall(max)
    \/ \E o \in EndpointOutcomes : EpAttempt(o)
    \/ EpDone

\* ========================================================================
\* AutoCookieGenerator.generate_fresh_cookies (src/todo/auto_cookie.py)
\* ========================================================================
\* self.generation_strategies
GenerationStrategies ==
    <<"_strategy_nodejs", "_strategy_python_fallback",
      "_strategy_simple_base", "_strategy_cached_cookies">>

\* what strategy i can produce: the node strategy a token, or None because
\* node is missing ("no_node") or because the script failed, timed out or
\* printed too little ("js_failed"); the two heuristics a token, or None
\* from their except branch; the last one the content of the cache file
\* when the file is less than 3600 s old
StrategyOutcomes(i) ==
    IF GenerationStrategies[i] = "_strategy_cached_cookies"
      THEN IF ac_cache = "fresh" THEN {"token"} ELSE {"nothing"}
    ELSE IF GenerationStrategies[i] = "_strategy_nodejs"
      THEN {"token", "no_node", "js_failed"}
    ELSE {"token", "nothing"}

Tried(i, o) == [strategy |-> GenerationStrategies[i], outcome |-> o]
Validated(what, ok) == [what |-> what, ok |-> ok]

AcInit ==
    /\ ac_pc = "idle"
    /\ ac_trace = <<>>
    /\ ac_cache = "none"
    /\ ac_valid = <<>>
    /\ ac_result = "none"

\* generate_fresh_cookies up to the loop: _get_base_cookies
AcCall(base_ok) ==
    /\ ac_pc = "idle"
    /\ ac_pc' = IF base_ok THEN "strategies" ELSE "returned"
    /\ ac_result' = IF base_ok THEN "none" ELSE "None"
    /\ UNCHANGED <<ac_trace, ac_cache, ac_valid>>
    /\ UNCHANGED notAc

\* `if result: ... break` of the loop over the strategies
LoopBreaks(o) == o = "token"

\* one iteration of the loop over the strategies (lines 62-74); the node
\* strategy caches the token it produced (line 274)
AcStrategy(o) ==
    /\ ac_pc = "strategies"
    /\ LET i == Len(ac_trace) + 1
       IN  /\ o \in StrategyOutcomes(i)
           /\ ac_trace' = Append(ac_trace, Tried(i, o))
           /\ ac_cache' = IF GenerationStrategies[i] = "_strategy_nodejs" /\ o = "token"
                            THEN "fresh" ELSE ac_cache
           /\ ac_pc' = IF LoopBreaks(o) \/ i = Len(GenerationStrategies)
                         THEN "validate" ELSE "strategies"
    /\ UNCHANGED <<ac_valid, ac_result>>
    /\ UNCHANGED notAc

\* the token generate_fresh_cookies holds after the loop
HasToken ==
    \E k \in 1..Len(ac_trace) : ac_trace[k].outcome = "token"

\* lines 76-86: the base cookies, with the token when there is one, are
\* validated and returned when they pass
AcValidate(ok) ==
    /\ ac_pc = "validate"
    /\ ac_valid' = <<Validated(IF HasToken THEN "full" ELSE "base", ok)>>
    /\ ac_pc' = IF ok THEN "returned" ELSE "validate_base"
    /\ ac_result' = IF ~ok THEN "none" ELSE IF HasToken THEN "full" ELSE "base"
    /\ UNCHANGED <<ac_trace, ac_cache>>
    /\ UNCHANGED notAc

\* lines 87-96: the base cookies alone are validated
AcValidateBase(ok) ==
    /\ ac_pc = "validate_base"
    /\ ac_valid' = Append(ac_valid, Validated("base", ok))
    /\ ac_pc' = "returned"
    /\ ac_result' = IF ok THEN "base" ELSE "None"
    /\ UNCHANGED <<ac_trace, ac_cache>>
    /\ UNCHANGED notAc

\* the caller has the result
AcDone ==
    /\ ac_pc = "returned"
    /\ ac_pc' = "idle"
    /\ ac_trace' = <<>>
    /\ ac_valid' = <<>>
    /\ ac_result' = "none"
    /\ UNCHANGED ac_cache
    /\ UNCHANGED notAc

\* an hour passes: time.time() - file_time reaches 3600
AcCacheAges ==
    /\ ac_cache = "fresh"
    /\ ac_cache' = "stale"
    /\ UNCHANGED <<ac_pc, ac_trace, ac_valid, ac_result>>
    /\ UNCHANGED notAc

AcNext ==
    \/ \E base_ok \in BOOLEAN : AcCall(base_ok)
    \/ \E o \in {"token", "nothing", "no_node", "js_failed"} : AcStrategy(o)
    \/ \E ok \in BOOLEAN : AcValidate(ok)
    \/ \E ok \in BOOLEAN : AcValidateBase(ok)
    \/ AcDone
    \/ AcCacheAges

\* ========================================================================
\* get_cookie.py: importing a cookie string from cookie_input.txt
\* ========================================================================
\* one `;`-separated item of a cookie string: with an `=`, a key and a value;
\* without one, text the parser skips
Pair(k, v) == [eq |-> TRUE, key |-> k, value |-> v]
Junk == [eq |-> FALSE, key |-> "", value |-> ""]

\* a line of the file after strip(): empty, a comment (it starts with #), or
\* a cookie string, which is its items
Line(kind, items) == [kind |-> kind, items |-> items]
BlankLine == Line("blank", <<>>)
CommentLine == Line("comment", <<>>)
\* "# Cookie已处理，此文件可清空"
ProcessedLine == Line("processed", <<>>)
CookieStrings ==
    {<<Pair("u", "123"), Pair("s", "sess")>>,
     <<Pair("u", "0"), Pair("s", "sess"), Pair("u", "123")>>,
     <<Junk>>}
InputLines ==
    {BlankLine, CommentLine} \cup {Line("text", c) : c \in CookieStrings}
InputContents == UNION {[1..n -> InputLines] : n \in 0..MaxLines}

File(lines) == [exists |-> TRUE, lines |-> lines]
NoInputFile == [exists |-> FALSE, lines |-> <<>>]

\* the first line that is neither empty nor a comment; "" when there is none
IsCookieLine(l) == l.kind = "text"
CookieString(lines) ==
    LET found == SelectSeq(lines, IsCookieLine)
    IN  IF found = <<>> THEN <<>> ELSE found[1].items

\* the loop over cookie_string.split(';'): cookies[key] = value for each
\* item holding an `=`, a later item replacing an earlier one of its key
RECURSIVE ParseCookieString(_)
ParseCookieString(items) ==
    IF items = <<>> THEN NoCookies
    ELSE LET before == ParseCookieString(SubSeq(items, 1, Len(items) - 1))
             item == items[Len(items)]
         IN  IF item.eq
               THEN [n \in DOMAIN before \cup {item.key} |->
                       IF n = item.key THEN item.value ELSE before[n]]
               ELSE before

\* the write that blanks the input file: done, or the file cannot be opened
\* for writing and keeps its content, or it is opened (truncated) and the
\* write fails; the bare `except: pass` hides the last two
BlankOutcomes == {"written", "not_opened", "torn"}
InputAfterBlank(file, outcome) ==
    IF outcome = "written" THEN File(<<ProcessedLine>>)
    ELSE IF outcome = "torn" THEN File(<<>>)
    ELSE file

\* the return statement process_cookie_file() leaves by
ImportPath(file, read_ok, save_outcome) ==
    IF ~file.exists THEN "created"
    ELSE IF ~read_ok THEN "read_failed"
    ELSE IF CookieString(file.lines) = <<>> THEN "no_cookie_line"
    ELSE IF ~Truthy(ParseCookieString(CookieString(file.lines)))
      THEN "no_cookies"
    ELSE IF save_outcome # "written" THEN "save_failed"
    ELSE "imported"

ImportInit ==
    /\ input_file = NoInputFile
    /\ imp_ret = "none"
    /\ imp_path = "none"
    /\ imp_input0 = NoInputFile
    /\ imp_cookies = NoCookies

\* the user edits cookie_input.txt, or deletes it
EditInput(file) ==
    /\ file # input_file
    /\ input_file' = file
    /\ imp_ret' = "none"
    /\ imp_path' = "none"
    /\ imp_input0' = file
    /\ imp_cookies' = NoCookies
    /\ UNCHANGED authVars
    /\ UNCHANGED notImp

\* process_cookie_file().  validate_cookies only prints: the cookies are
\* saved whatever it answers.
ProcessCookieFile(read_ok, save_outcome, blank_outcome) ==
    LET path == ImportPath(input_file, read_ok, save_outcome)
        saving == path \in {"save_failed", "imported"}
        cookies == IF path \in {"no_cookies", "save_failed", "imported"}
                     THEN ParseCookieString(CookieString(input_file.lines))
                     ELSE NoCookies
    IN  /\ imp_ret = "none"
        /\ imp_input0' = input_file
        /\ imp_path' = path
        /\ imp_cookies' = cookies
        /\ imp_ret' = IF path = "imported" THEN "True" ELSE "False"
        /\ input_file' =
             IF path = "created" THEN File(<<>>)
             ELSE IF path = "imported"
               THEN InputAfterBlank(input_file, blank_outcome)
             ELSE input_file
        /\ cookie_file' =
             IF saving THEN FileAfterSave(cookies, save_outcome)
             ELSE cookie_file
        /\ persisted' =
             IF saving THEN PersistedAfterSave(cookies, save_outcome)
             ELSE persisted
        /\ UNCHANGED <<now, session, a_op, a_result, a_requests, a_path>>
        /\ UNCHANGED notImp

ImportNext ==
    \/ \E file \in {NoInputFile} \cup {File(c) : c \in InputContents} :
         EditInput(file)
    \/ \E read_ok \in BOOLEAN, save_outcome \in SaveOutcomes,
          blank_outcome \in BlankOutcomes :
         ProcessCookieFile(read_ok, save_outcome, blank_outcome)

\* ========================================================================
\* CrawlerService: construction and switch_storage
\* ========================================================================
\* Config.STORAGE_CONFIG['type']
ConfigStorageType == "csv"
\* the storage_type arguments tried: the two modes, and three that are neither
ModeArgs == StorageTypes \cup {"sqlite", "CSV", ""}
\* an attribute that was never assigned
Unset == 0

\* the attributes of a CrawlerService: storage_type, the id of its
\* DataRepository, for each crawler the id of the repository it was built
\* with, and whether self.logger is assigned
NoService ==
    [storage_type |-> "", data_repo |-> Unset, stock_crawler |-> Unset,
     financial_crawler |-> Unset, kline_crawler |-> Unset,
     stock_list_crawler |-> Unset, logger |-> Unset]

ServiceCall(op, arg, outcome) == [op |-> op, arg |-> arg, outcome |-> outcome]

ServiceInit0 ==
    /\ repos = <<>>
    /\ svc = NoService
    /\ svc_call = ServiceCall("none", "", "")
    /\ svc_before = NoService
    /\ svc_trace = <<>>

\* the assignments shared by __init__ (lines 20-27) and switch_storage
\* (lines 42-49), on the object `obj`, for a mode DataRepository accepts:
\* storage_type, a new DataRepository, the stock, financial and K-line
\* crawlers on it; then `StockListCrawler(self.data_repo)`, a name the module
\* neither defines nor imports, raises NameError: stock_list_crawler, and in
\* __init__ the logger assigned on the line after it, are left as they were
Rebuilt(obj, mode, id) ==
    [obj EXCEPT !.storage_type = mode, !.data_repo = id, !.stock_crawler = id,
                !.financial_crawler = id, !.kline_crawler = id]

\* CrawlerService(storage_type=arg); "None" is the default argument.
\* DataRepository raises ValueError for a mode that is neither database nor
\* csv, after self.storage_type was assigned.
ServiceInit(arg) ==
    /\ svc_call.op = "none"
    /\ LET mode == IF arg = "None" THEN ConfigStorageType ELSE arg
           call == ServiceCall("init", arg,
                     IF mode \in StorageTypes THEN "NameError" ELSE "ValueError")
       IN /\ IF mode \in StorageTypes
               THEN /\ repos' = Append(repos, mode)
                    /\ svc' = Rebuilt(svc, mode, Len(repos) + 1)
               ELSE /\ repos' = repos
                    /\ svc' = [svc EXCEPT !.storage_type = mode]
          /\ svc_call' = call
          /\ svc_trace' = Append(svc_trace, call)
    /\ svc_before' = svc
    /\ UNCHANGED notSvc

\* how switch_storage(mode) ends on the object `obj`: the mode test of line
\* 38, then line 41 reads self.logger
SwitchOutcome(obj, mode) ==
    IF mode \notin StorageTypes THEN "ValueError"
    ELSE IF obj.logger = Unset THEN "AttributeError"
    ELSE "NameError"

\* switch_storage(new_storage_type) on the object __init__ has worked on
SwitchStorage(mode) ==
    /\ svc_call.op # "none"
    /\ Len(svc_trace) <= MaxSwitches
    /\ LET call == ServiceCall("switch", mode, SwitchOutcome(svc, mode))
       IN /\ IF call.outcome = "NameError"
               THEN /\ repos' = Append(repos, mode)
                    /\ svc' = Rebuilt(svc, mode, Len(repos) + 1)
               ELSE /\ repos' = repos
                    /\ svc' = svc
          /\ svc_call' = call
          /\ svc_trace' = Append(svc_trace, call)
    /\ svc_before' = svc
    /\ UNCHANGED notSvc

ServiceNext ==
    \/ \E arg \in ModeArgs \cup {"None"} : ServiceInit(arg)
    \/ \E mode \in ModeArgs : SwitchStorage(mode)

\* ========================================================================
\* CrawlerService: the batch crawls, one at a time
\* ========================================================================
\* The service runs each batch crawl as a blocking call, so one crawl runs at
\* a time; a behaviour follows one run of each, in either order.
\* run_financial_crawl, and step 3 of run_full_crawl:
\* self.financial_crawler.crawl_financial_data()
RunFinancialCrawl ==
    /\ k_pc # "running"
    /\ FinStart

\* run_kline_crawl, and step 4 of run_full_crawl:
\* self.kline_crawler.crawl_kline_data(), with max_stocks left at None
RunKlineCrawl ==
    /\ f_pc # "running"
    /\ KlineStart("crawl", None)

BatchNext ==
    \/ RunFinancialCrawl
    \/ \E o \in FinOutcomes : FinStep(o)
    \/ FinFinish
    \/ RunKlineCrawl
    \/ \E o \in KlineOutcomes : KlineStep(o)
    \/ KlineFinish

\* ========================================================================
\* Specifications
\* ========================================================================
OthersInit ==
    /\ UpsertInit /\ AuthInit /\ PoolInit /\ StatusInit /\ CliInit
    /\ ServiceInit0 /\ ImportInit /\ HeadInit /\ RatioInit
    /\ ParseInit
    /\ KfetchInit
    /\ EpInit
    /\ AcInit
CoreInit == RetryInit /\ StoreInit /\ KlineInit /\ StmtInit /\ FinInit

InitRetry ==
    RetryInit /\ StoreInit /\ KlineInit /\ StmtInit /\ FinInit /\ OthersInit
SpecRetry == InitRetry /\ [][RetryNext]_vars

InitKline ==
    RetryInit /\ StoreDrawn /\ KlineInit /\ StmtInit /\ FinInit /\ OthersInit
SpecKline == InitKline /\ [][KlineNext]_vars

InitStmt ==
    RetryInit /\ StoreDrawnInfo /\ KlineInit /\ StmtInit /\ FinInit /\ OthersInit
SpecStmt == InitStmt /\ [][StmtNext]_vars

InitFin ==
    RetryInit /\ StoreDrawnInfo /\ KlineInit /\ StmtInit /\ FinInit /\ OthersInit
SpecFin == InitFin /\ [][FinNext]_vars

InitBatch ==
    RetryInit /\ StoreDrawnInfo /\ KlineInit /\ StmtInit /\ FinInit /\ OthersInit
SpecBatch == InitBatch /\ [][BatchNext]_vars

InitStatus ==
    CoreInit /\ UpsertInit /\ AuthInit /\ PoolInit /\ StatusDrawn /\ CliInit
    /\ ServiceInit0 /\ ImportInit /\ HeadInit /\ RatioInit
    /\ ParseInit
    /\ KfetchInit
    /\ EpInit
    /\ AcInit
SpecStatus == InitStatus /\ [][StatusNext]_vars

InitCli ==
    CoreInit /\ UpsertInit /\ AuthInit /\ PoolInit /\ StatusDrawn /\ CliInit
    /\ ServiceInit0 /\ ImportInit /\ HeadInit /\ RatioInit
    /\ ParseInit
    /\ KfetchInit
    /\ EpInit
    /\ AcInit

InitService == CoreInit /\ OthersInit
SpecService == InitService /\ [][ServiceNext]_vars

InitHead == CoreInit /\ OthersInit
SpecHead == InitHead /\ [][HeadNext]_vars

InitRatio == CoreInit /\ OthersInit
SpecRatio == InitRatio /\ [][RatioNext]_vars

InitParse == CoreInit /\ OthersInit
SpecParse == InitParse /\ [][ParseNext]_vars

InitKfetch == CoreInit /\ OthersInit
SpecKfetch == InitKfetch /\ [][KfetchNext]_vars

InitEp == CoreInit /\ OthersInit
SpecEp == InitEp /\ [][EpNext]_vars

InitAc == CoreInit /\ OthersInit
SpecAc == InitAc /\ [][AcNext]_vars

InitImport == CoreInit /\ OthersInit
SpecImport == InitImport /\ [][ImportNext]_vars
SpecCli == InitCli /\ [][CliNext]_vars

InitUpsert ==
    RetryInit /\ StoreEither /\ KlineInit /\ StmtInit /\ FinInit /\ OthersInit
SpecUpsert == InitUpsert /\ [][UpsertNext]_vars

InitAuth ==
    RetryInit /\ StoreInit /\ KlineInit /\ StmtInit /\ FinInit /\ OthersInit
SpecAuth == InitAuth /\ [][AuthNext]_vars

InitPool ==
    RetryInit /\ StoreInit /\ KlineInit /\ StmtInit /\ FinInit /\ OthersInit
SpecPool == InitPool /\ [][PoolNext]_vars

\* ========================================================================
\* Claims
\* ========================================================================

\* ---- helpers over the trace ------------------------------------------
Gets(tr) == SelectSeq(tr, LAMBDA e : e.kind = "get")
Sleeps(tr) == SelectSeq(tr, LAMBDA e : e.kind = "sleep")

\* GET, sleep, GET, sleep, ..., GET: n GETs with a sleep of the configured
\* delay between consecutive ones and none after the last
Alternates(tr, n) ==
    /\ Len(tr) = IF n = 0 THEN 0 ELSE 2 * n - 1
    /\ \A i \in 1..Len(tr) :
         IF i % 2 = 1 THEN tr[i].kind = "get"
                      ELSE tr[i] = SleepEvent(ConfigRequestDelay)

\* C1: a make_request call with max_retries >= 1 in which every attempt
\* fails has issued exactly max_retries GETs when it raises, with one wait of
\* the configured delay between consecutive attempts, and the failure carries
\* the retry count; at no time has a call issued more than max_retries GETs.
C1_RetryExhaustion ==
    /\ Len(Gets(rq_trace)) <= max_retries
    /\ (rq_pc = "raised" /\ max_retries >= 1) =>
         /\ Len(Gets(rq_trace)) = max_retries
         /\ \A i \in 1..Len(rq_trace) : rq_trace[i].what # "ok"
         /\ Alternates(rq_trace, max_retries)
         /\ rq_error = max_retries

\* a call with the default of three retries has failed three times and raised
C1_Witness ==
    /\ rq_pc = "raised"
    /\ max_retries = ConfigMaxRetries
    /\ Len(Gets(rq_trace)) = 3
    /\ Len(Sleeps(rq_trace)) = 2

\* ---- K-line worklists ---------------------------------------------------
\* the full worklist W of a run: every security of the snapshot (CSV mode)
\* or of the stocks table (database mode)
KlineFullWorklist == IF HasCsvStorage THEN Range(k_all) ELSE stocks_table
\* W is a set: no symbol is listed twice in the snapshot
KlineWorklistIsSet == HasCsvStorage => NoDup(k_all)
KlineNoLimit == k_arg = None \/ k_arg = 0

\* C2: a resume_crawl run without a max_stocks limit, started with the
\* K-line processing log L over the full worklist W (a set), fetches no symbol
\* of L, no symbol outside W and no symbol twice, and when it has finished it
\* has fetched each symbol of W minus L exactly once.
C2_ResumeFetchesExactlyUnlogged ==
    (k_op = "resume" /\ k_pc \in {"running", "done"} /\ KlineNoLimit
       /\ KlineWorklistIsSet) =>
      /\ \A s \in Symbols :
           k_fetched[s] <= (IF s \in KlineFullWorklist \ k_log0 THEN 1 ELSE 0)
      /\ k_pc = "done" =>
           \A s \in KlineFullWorklist \ k_log0 : k_fetched[s] = 1

\* a finished resume run over W = {A, B, C} with L = {A} that fetched B and C
C2_Witness ==
    /\ k_op = "resume" /\ k_pc = "done" /\ KlineNoLimit /\ KlineWorklistIsSet
    /\ KlineFullWorklist = {"A", "B", "C"}
    /\ k_log0 = {"A"}
    /\ k_fetched = [s \in Symbols |-> IF s = "A" THEN 0 ELSE 1]

\* C9: a crawl_kline_data run fetches no symbol that was in the K-line
\* processing log when the run computed its worklist.
C9_CrawlSkipsLogged ==
    (k_op = "crawl" /\ k_pc \in {"running", "done"}) =>
      \A s \in Symbols : k_fetched[s] > 0 => s \notin k_log0

\* ---- the statements worklist -------------------------------------------
\* the securities the statements crawler works over
StmtSecurities ==
    IF storage_type = "csv" THEN Range(SymbolsOf(stock_info)) ELSE stocks_table

\* C3: the worklist returned by get_unprocessed_stocks holds a security
\* exactly when fewer than all three statement types (income, balance, cash)
\* are logged for it: it is reported while a type is missing and excluded
\* once all three are logged.
C3_ThreeStatementGate ==
    stmt_pc = "queried" =>
      \A s \in StmtSecurities :
        s \in Range(stmt_result) <=> ~HasAllStatements(s, stmt_log0)

\* a security with some, but not all, of the three statement types logged
PartiallyLogged(s, log) ==
    /\ \E t \in StatementTypes : <<s, t>> \in log
    /\ ~HasAllStatements(s, log)

\* C11: a security for which only some of the three statement types are
\* logged is in the worklist of the next run of crawl_financial_statements,
\* and that run asks the API only for its statement types that are not
\* logged: no statement type already logged for it is fetched again.
C11_PartialRetriedForMissingOnly ==
    stmt_pc = "queried" =>
      \A s \in StmtSecurities :
        PartiallyLogged(s, stmt_log0) =>
          /\ s \in Range(stmt_result)
          /\ \A t \in StatementTypes :
               <<s, t>> \in stmt_fetched => <<s, t>> \notin stmt_log0

\* ---- the financial-summary worklist -------------------------------------
\* C10: a crawl_financial_data run requests no security that had a
\* (compcode, reportdate) pair in the finmain processing log when the run
\* started; the log itself never loses a pair.
C10_NoRefetchOfLogged ==
    f_pc \in {"running", "done"} =>
      /\ \A s \in Symbols : f_fetched[s] > 0 => s \notin LoggedCompcodes(f_log0)
      /\ f_log0 \subseteq fin_log

\* a later run that skipped the logged security A and requested B
C10_Witness ==
    /\ f_pc = "done"
    /\ "A" \in LoggedCompcodes(f_log0)
    /\ "A" \in Range(SymbolsOf(stock_info))
    /\ f_fetched["A"] = 0
    /\ f_fetched["B"] = 1

\* ---- the batch crawls -----------------------------------------------------
\* how often x occurs in the list q
CountIn(q, x) == Cardinality({i \in 1..Len(q) : q[i] = x})

\* C12: in a batch crawl (K-line, financial summary) every symbol of the
\* worklist is attempted, whatever became of the symbols before it: a fetch
\* that failed after its retries, or a failed storage write, is counted as a
\* failure of that symbol (failed_symbols, error_count), the loop goes on,
\* and the crawl ends normally with every symbol counted as a success or a
\* failure.
C12_BatchCrawlSurvivesFailures ==
    /\ k_pc = "running" =>
         /\ processed_count + Len(failed_symbols) = k_i - 1
         /\ Range(failed_symbols) \subseteq Range(Take(k_work, k_i - 1))
    /\ k_pc = "done" =>
         /\ processed_count + Len(failed_symbols) = Len(k_work)
         /\ \A s \in Symbols : k_fetched[s] = CountIn(k_work, s)
    /\ f_pc = "running" => f_success + f_error = f_i - 1
    /\ f_pc = "done" =>
         /\ f_success + f_error = Len(f_work)
         /\ \A s \in Symbols : f_fetched[s] = CountIn(f_work, s)

\* both crawls have ended, each after a failure of its first symbol and a
\* success of a later one
C12_Witness ==
    /\ k_pc = "done" /\ Len(k_work) >= 2
    /\ failed_symbols # <<>> /\ failed_symbols[1] = k_work[1]
    /\ processed_count >= 1
    /\ f_pc = "done" /\ Len(f_work) >= 2
    /\ f_error >= 1 /\ f_success >= 1

\* ---- the Security upsert -------------------------------------------------
\* the completed saves of a symbol, in order
SavesOf(s) == SelectSeq(up_saved, LAMBDA x : x.symbol = s)
\* the stored records of a symbol, in the backend in use
StoredCsv(s) == {i \in 1..Len(csv_rows) : csv_rows[i].symbol = s}
StoredDb(s) == {x \in db_rows : x.symbol = s}

\* C4: once a Security record has been saved twice for a symbol, the backend
\* in use holds exactly one record for that symbol and it carries the values
\* of the latest save.
C4_UpsertKeepsLatest ==
    \A s \in Symbols :
      Len(SavesOf(s)) >= 2 =>
        IF storage_type = "csv"
          THEN /\ Cardinality(StoredCsv(s)) = 1
               /\ \A i \in StoredCsv(s) :
                    csv_rows[i] = CsvRow(SavesOf(s)[Len(SavesOf(s))])
          ELSE /\ Cardinality(StoredDb(s)) = 1
               /\ \A x \in StoredDb(s) : x = SavesOf(s)[Len(SavesOf(s))]

\* the read-back of the Security records of a symbol: read_from_csv in CSV
\* mode (cells as text), SELECT in database mode
ReadStock(s) ==
    IF storage_type = "csv" THEN {csv_rows[i] : i \in StoredCsv(s)}
                            ELSE StoredDb(s)
\* a record in the representation of the backend in use
Stored(rec) == IF storage_type = "csv" THEN CsvRow(rec) ELSE rec

\* C13: a record of an entity type (Security, K-line log row, financial
\* statement) handed to the DataRepository of either mode, with the backend's
\* I/O working, is saved successfully, and reading it back through the same
\* repository returns the saved field values.
C13_SaveThenReadBack ==
    (up_last.entity # "none" /\ up_last.io_ok) =>
      /\ up_last.ok
      /\ up_last.entity = "stock" =>
           ReadStock(up_last.rec.symbol) = {Stored(up_last.rec)}
      /\ up_last.entity = "kline_log" => up_last.rec.symbol \in klog_rows
      /\ up_last.entity = "statement" =>
           GetFinancialStatementData(up_last.rec.symbol,
                                     up_last.rec.statement_type) # {}

\* ---- the authentication manager ------------------------------------------
\* C5: a session handed out by get_session carries the u and s cookies,
\* whichever path of get_cookies produced its cookies.
C5_SessionCarriesUAndS ==
    session.made => {"u", "s"} \subseteq DOMAIN session.cookies

C14_GuestModeDetection ==
    (/\ st_check # "none"
     /\ "u" \in DOMAIN st_cookies
     /\ st_check = "check_cookie_status" => ManualValidateCookies(st_cookies)) =>
      /\ st_cookies["u"] = "0" => st_report = Report("guest", "")
      /\ st_cookies["u"] \notin {"0", ""} =>
           st_report = Report("logged_in", st_cookies["u"])

\* test_auth has reported a logged-in map with its user id
C14_Witness ==
    /\ st_check = "test_auth"
    /\ "u" \in DOMAIN st_cookies /\ st_cookies["u"] = "123"
    /\ st_report = Report("logged_in", "123")

\* C15: in run.py the menu is shown, and a menu action started, only after
\* test_authentication() returned True; and test_authentication() returns
\* False whenever the cookie map is empty, u is "0" (guest mode), or the live
\* validation of the cookies fails.
C15_AuthenticationGate ==
    /\ (cli_pc = "menu" \/ cli_started # <<>>) => cli_auth = "true"
    /\ (/\ cli_auth # "none"
        /\ \/ st_cookies = NoCookies
           \/ ("u" \in DOMAIN st_cookies /\ st_cookies["u"] = "0")
           \/ ~ValidateCookies(st_cookies, cli_http)) => cli_auth = "false"

\* a menu action has been started, after the gate let a logged-in map pass
C15_Witness ==
    /\ cli_started # <<>>
    /\ cli_auth = "true"
    /\ "u" \in DOMAIN st_cookies /\ st_cookies["u"] = "123"

\* ---- CrawlerService -------------------------------------------------------
\* the crawler attributes of the service, and its domain crawlers
CrawlerAttrs ==
    {"stock_crawler", "financial_crawler", "kline_crawler", "stock_list_crawler"}
DomainCrawlers == {"stock_crawler", "financial_crawler", "kline_crawler"}

\* the service's repository is of the given mode and each of the named
\* crawlers was built on that repository
UsesBackend(obj, mode, crawlers) ==
    /\ obj.data_repo # Unset
    /\ repos[obj.data_repo] = mode
    /\ \A c \in crawlers : obj[c] = obj.data_repo

\* C16: a switch_storage call with a mode outside {database, csv} is
\* rejected with nothing of the service changed; a call with a mode in
\* {database, csv} returns, and the service's repository and every crawler
\* instance the service holds then use the new backend.
C16_SwitchStorage ==
    svc_call.op = "switch" =>
      IF svc_call.arg \notin StorageTypes
        THEN svc_call.outcome = "ValueError" /\ svc = svc_before
        ELSE /\ svc_call.outcome = "returned"
             /\ svc.storage_type = svc_call.arg
             /\ UsesBackend(svc, svc_call.arg, CrawlerAttrs)

\* C17: CrawlerService() with default arguments constructs a service; from
\* then on, whether switch_storage calls return or raise, the service holds
\* a DataRepository whose mode is service.storage_type and its stock,
\* financial and K-line crawlers are set and share that repository.
C17_ServiceHoldsOneRepository ==
    /\ (svc_call.op = "init" /\ svc_call.arg = "None") =>
         svc_call.outcome = "returned"
    /\ (svc_trace # <<>> /\ svc_trace[1].arg = "None") =>
         UsesBackend(svc, svc.storage_type, DomainCrawlers)

\* ---- the connection pool -------------------------------------------------
\* C7: as long as only get_connection calls and releases have run, at most
\* pool_size connections sit idle in the pool and at most 2 x pool_size
\* connections are open, idle and checked out together.
C7_PoolBounds ==
    ~closed_all =>
      /\ pool <= PoolSize
      /\ Existing <= MaxConnections

\* a holder's release, whatever the ping answers
ReleaseStep == \E valid \in BOOLEAN : ReleaseConnection(valid)

\* C8: while 2 x pool_size connections are checked out and a further
\* get_connection caller waits for one, a holder can release its connection.
C8_WaiterLetsHoldersRelease ==
    (at["sleeping"] > 0 /\ at["using"] = MaxConnections) => ENABLED ReleaseStep

\* ---- get_cookie.py -------------------------------------------------------
\* the cookie string the call imported is still a line of the file
StaleStringInFile ==
    \E i \in 1..Len(input_file.lines) :
       /\ input_file.lines[i].kind = "text"
       /\ input_file.lines[i].items = CookieString(imp_input0.lines)

\* C18: process_cookie_file changes the content of an existing
\* cookie_input.txt only after the parsed cookies were written to the cookie
\* file of the authentication manager; when no cookie line is found, when
\* nothing parses and when the save fails the input file is as the call
\* found it; and after a successful import the imported cookie string is no
\* longer in the file.
C18_BlankOnlyAfterPersist ==
    imp_ret # "none" =>
      /\ (imp_input0.exists /\ input_file # imp_input0) =>
            /\ imp_path = "imported"
            /\ cookie_file.state = "ok"
            /\ JsonLoad(cookie_file.cookies) = imp_cookies
      /\ imp_path \in {"no_cookie_line", "no_cookies", "save_failed"} =>
            input_file = imp_input0
      /\ imp_ret = "True" => ~StaleStringInFile

\* ---- FinancialCrawler: null coercion --------------------------------------
\* every numeric member of the item is present and spelled null
AllNull(payload) ==
    /\ DOMAIN payload = NumericFields
    /\ \A f \in NumericFields : payload[f] = "null"

\* C19: when every numeric member of the headline item is JSON null, every
\* numeric field of the record get_financial_data produces is 0, and so is
\* every such field of the row that is persisted, in the CSV file (the cell
\* 0, not the empty cell) and in the finmain table (0, not NULL).
C19_NullCoercedToZero ==
    (h_pc # "idle" /\ AllNull(h_payload)) =>
      /\ h_record # {}
      /\ \A r \in h_record : \A f \in NumericFields : r[f] = 0
      /\ \A r \in h_csv :
           DOMAIN r = NumericFields /\ \A f \in NumericFields : r[f] = "0"
      /\ \A r \in h_db :
           DOMAIN r = NumericFields /\ \A f \in NumericFields : r[f] = 0

C19_Witness ==
    /\ h_pc = "saved"
    /\ AllNull(h_payload)
    /\ h_csv # {}

\* ---- calculate_financial_ratios ------------------------------------------
\* the ratios whose denominator is total_assets
TotalAssetsRatios ==
    {"finance_asset_percent", "business_asset_percent",
     "lt_equity_invest_percent", "long_business_asset_percent"}

\* C20: calculate_financial_ratios given a balance sheet whose total_assets
\* is 0 returns without an exception raised inside it and with none of the
\* ratios over total_assets among its results; given a cash-flow section in
\* which net_investment + net_merger is 0 it returns likewise and without
\* cash_satify_percent; and no value it returns is a quotient by zero.
C20_RatiosOmittedOnZeroDenominator ==
    r_pc = "done" =>
      /\ Field(r_balance, "total_assets") = 0 =>
            /\ ~r_out.error
            /\ DOMAIN r_out.ratios \cap TotalAssetsRatios = {}
      /\ (DOMAIN r_cash # {} /\ NetInvestment(r_cash) + NetMerger(r_cash) = 0) =>
            /\ ~r_out.error
            /\ "cash_satify_percent" \notin DOMAIN r_out.ratios
      /\ \A k \in DOMAIN r_out.ratios : r_out.ratios[k][2] # 0

C20_Witness ==
    /\ r_pc = "done"
    /\ Field(r_balance, "total_assets") = 0
    /\ DOMAIN r_cash # {}
    /\ NetInvestment(r_cash) # 0
    /\ NetInvestment(r_cash) + NetMerger(r_cash) = 0
    /\ "net_merger" \in DOMAIN r_out.ratios
    /\ "finance_turnover" \in DOMAIN r_out.ratios

\* ---- StockCrawler._parse_stock_data ----------------------------------------
\* C21: _parse_stock_data takes symbol and code from index 0 of the row, name
\* from 1, current from 2 and percent from 4, and the row of
\* test_parse_stock_data yields volume 1000000, amount 5000000,
\* marketcapital 10000000, pe_ttm 15.0, high52w 8.0 and low52w 15.0.
C21_ParseByPosition ==
    p_pc = "parsed" =>
      /\ p_out.symbol = p_row[1] /\ p_out.code = p_row[1]
      /\ p_out.name = p_row[2]
      /\ PyEq(p_out.current, OrZero(p_row[3]))
      /\ PyEq(p_out.percent, OrZero(p_row[5]))
      /\ p_row = TestRow =>
           /\ PyEq(p_out.volume, Num(10000000))
           /\ PyEq(p_out.amount, Num(50000000))
           /\ PyEq(p_out.marketcapital, Num(100000000))
           /\ PyEq(p_out.pe_ttm, Num(150))
           /\ PyEq(p_out.high52w, Num(80))
           /\ PyEq(p_out.low52w, Num(150))

\* ---- DatabaseManager: the lock, and the connection count -------------------
\* C22: every read-modify-write of the pool's connection count is made under
\* the pool's lock, so that no update is lost: whenever a thread writes the
\* value it read plus one, the count still is the value it read.
C22_NoLostUpdate ==
    [][\A v \in CounterValues : ReplaceIncrement(v) => created = v]_vars

\* no thread is inside get_connection's entry or exit code
PoolQuiet ==
    /\ at["connect"] = 0 /\ at["unwind"] = 0 /\ at["sleeping"] = 0
    /\ \A v \in CounterValues : reading[v] = 0

\* C30: whenever no thread is in the middle of an acquire or a release,
\* _created_connections equals the number of open connections the pool
\* owns: those idle in the pool plus those checked out.
C30_CountEqualsOpenConnections ==
    PoolQuiet => created = pool + at["using"]

\* ---- KlineCrawler._fetch_kline_data_with_retry -----------------------------
\* the response has HTTP 200, error_code 0 and bars that convert (or none)
Usable(r) == r.http = "200" /\ r.error_code = 0 /\ r.items # "malformed"

EpGets == {i \in 1..Len(ep_trace) : ep_trace[i].ev = "get"}
EpGetsOf(url) == {i \in EpGets : ep_trace[i].url = url}

\* C24: the primary endpoint is tried before the backup; a 404 is the last
\* request its endpoint receives and the next request follows without a
\* wait; any other failure is followed by a 0.5 s wait and another request
\* to the same endpoint while the endpoint has attempts left; a usable
\* answer ends the call with its data; and no endpoint receives more than
\* max_retries requests.
C24_EndpointOrderAndRetries ==
    /\ \A i \in EpGetsOf("backup") : \A j \in EpGetsOf("primary") : j < i
    /\ \A k \in 1..Len(UrlsToTry) :
         Cardinality(EpGetsOf(UrlsToTry[k])) <= ep_max
    /\ \A i \in EpGets :
         LET e == ep_trace[i]
             more == i < Len(ep_trace)
         IN  /\ e.outcome = "404" =>
                  /\ \A j \in EpGetsOf(e.url) : j <= i
                  /\ more => ep_trace[i + 1].ev = "get"
             /\ e.outcome = "usable" =>
                  /\ ~more
                  /\ ep_pc = "returned"
                  /\ ep_result = EndpointResult("data", e.url)
             /\ (e.outcome \notin {"404", "usable"} /\ more) =>
                  IF ep_trace[i + 1].ev = "sleep"
                    THEN i + 1 < Len(ep_trace) =>
                           ep_trace[i + 2] \in
                             {GetFrom(e.url, o) : o \in EndpointOutcomes}
                    ELSE /\ Cardinality(EpGetsOf(e.url)) = ep_max
                         /\ ep_trace[i + 1].url # e.url
    /\ \A i \in 1..Len(ep_trace) :
         ep_trace[i].ev = "sleep" =>
           /\ i > 1
           /\ ep_trace[i - 1].ev = "get"
           /\ ep_trace[i - 1].outcome \notin {"404", "usable"}
           /\ ep_trace[i - 1].url = ep_trace[i].url
    /\ (ep_pc = "returned" /\ ep_result.kind = "None") =>
         \A i \in EpGets : ep_trace[i].outcome # "usable"

C24_Witness ==
    /\ ep_pc = "returned"
    /\ ep_max = 3
    /\ Len(ep_trace) = 4
    /\ ep_trace[1] = GetFrom("primary", "404")
    /\ ep_trace[2] = GetFrom("backup", "500")
    /\ ep_trace[3] = HalfSecond("backup")
    /\ ep_trace[4] = GetFrom("backup", "usable")

\* ---- AutoCookieGenerator.generate_fresh_cookies ----------------------------
\* strategy k of the finished call produced nothing, or a token that failed
\* the validation
StrategyFailed(k) ==
    \/ ac_trace[k].outcome # "token"
    \/ /\ ac_trace[k].outcome = "token"
       /\ ac_valid # <<>>
       /\ ~ac_valid[1].ok

\* C25: the strategies are tried in the order of generation_strategies, and
\* when a call has returned, every strategy that produced nothing or a token
\* that failed the validation was followed by the next strategy, unless it
\* was the last one.
C25_NextStrategyAfterFailure ==
    /\ \A k \in 1..Len(ac_trace) :
         ac_trace[k].strategy = GenerationStrategies[k]
    /\ (ac_pc = "returned") =>
         \A k \in 1..Len(ac_trace) :
           StrategyFailed(k) =>
             k = Len(GenerationStrategies) \/ k < Len(ac_trace)

\* ---- XueqiuAuth: what reaches the cookie file ------------------------------
\* C26: whenever get_cookies (called directly or by get_session) writes the
\* cookie file, the map it writes is one that passed the live validation,
\* which of the generation paths only the path "fresh" provides.
C26_OnlyValidatedCookiesWritten ==
    [][(/\ cookie_file' # cookie_file
        /\ cookie_file'.state = "ok"
        /\ a_op' \in {"get_cookies", "get_session"}) => a_path' = "fresh"]_vars

\* ---- the K-line processing log and the counters of a run -------------------
\* C27: a step of a run that adds a symbol to the K-line processing log is
\* the step that fetched that symbol and counted it as processed, which the
\* loop does after the save returned True, and it appends nothing to
\* failed_symbols; a step that appends a symbol to failed_symbols leaves the
\* log as it was.  A run over a worklist without repeated symbols has logged
\* no symbol of its failed_symbols.
C27_LoggedOnlyAfterSave ==
    /\ [][/\ \A s \in Symbols :
               (s \in kline_log' /\ s \notin kline_log) =>
                 /\ k_pc = "running" /\ k_i <= Len(k_work) /\ s = k_work[k_i]
                 /\ k_fetched'[s] = k_fetched[s] + 1
                 /\ processed_count' = processed_count + 1
                 /\ failed_symbols' = failed_symbols
          /\ (k_pc = "running" /\ Len(failed_symbols') > Len(failed_symbols)) =>
               kline_log' = kline_log]_vars
    /\ []((k_pc \in {"running", "done"} /\ k_work # <<>> /\ NoDup(k_work)) =>
            \A s \in Range(failed_symbols) : s \notin kline_log \ k_log0)

\* a run has ended that logged one symbol and failed on another
C27_Witness ==
    /\ k_pc = "done" /\ NoDup(k_work) /\ Len(k_work) >= 2
    /\ \E s \in Range(k_work) : s \in kline_log \ k_log0
    /\ \E t \in Range(failed_symbols) : t \in Range(k_work) /\ t \notin kline_log

\* C29: when a crawl_kline_data or resume_crawl run has ended,
\* processed_count + len(failed_symbols) is the length of the run's worklist,
\* the failed symbols are symbols of the worklist, and over a worklist
\* without repeated symbols no symbol is counted twice.
C29_EverySymbolCountedOnce ==
    (k_pc = "done") =>
      /\ processed_count + Len(failed_symbols) = Len(k_work)
      /\ Range(failed_symbols) \subseteq Range(k_work)
      /\ NoDup(k_work) => NoDup(failed_symbols)

\* ---- the statement log after a crawl ---------------------------------------
\* C28: once a run of the statements crawl has fetched and saved all three
\* statements of a security, the statement processing log holds the three
\* statement types for that security, so that the worklist of the next run
\* leaves it out.
C28_CompleteSecurityIsLogged ==
    \A s \in stmt_complete : HasAllStatements(s, stmt_log)

====
